---- MODULE Spec2Model ----
(***************************************************************************)
(* A model of the jackal-js-worker: the CAF container writer and reader    *)
(* (src/src/cafSerializer.ts) and the packing pipeline of                  *)
(* CAFBatchProcessor (src/src/main.ts) with its queue, blob service and    *)
(* catalog, the WebServer that serves members back over HTTP, and the      *)
(* one-message-at-a-time SimpleCAFProcessor (src/unnamed/part_006).        *)
(*                                                                         *)
(* A container file is a sequence of cells.  A payload cell is one byte of *)
(* a member; the JSON index is one cell for the format_version member and  *)
(* one cell per own property of the "files" object, in property order; the *)
(* footer is the four bytes of writeUInt32LE.  Every cell is a record      *)
(* [k, p, a, b] so that cells of different kinds can be compared.          *)
(***************************************************************************)
EXTENDS Integers, Sequences, FiniteSets, TLC

\* ------------------------------------------------------------------ bounds
\* maxChunkSize of the writers of the model, in bytes (the program's is
\* maxChunkSizeGB * 2^30)
MaxChunkSize == 3
\* the longest member, in bytes
MaxLen == 2
\* the number of writer calls in one behaviour of SpecCAF
MaxCalls == 2

\* member paths handed to the writer; "__proto__" is the one property name
\* that a JavaScript object literal does not store as an own property
Paths == {"a", "b", "__proto__"}

VARIABLES
  writer,      \* SpecCAF: the CAFSerializer under test
  goSerializer, \* SpecCAF: the Go CAFSerializer given the same calls
  goRet,       \* SpecCAF: what the Go serializer's last call returned
  calls,       \* SpecCAF: the number of writer calls made
  lastCall,    \* SpecCAF: the last writer call,
               \*          [op, path, len, declared, ending, ret]
  added,       \* SpecCAF: the appends that returned true, [path, len], in order
  exact,       \* SpecCAF: every call so far was an append that returned true
               \*          for a source of exactly the declared length, or a
               \*          finalize that returned the path
  streamed,    \* SpecCAF: every call so far was an addFileFromStream that
               \*          returned true or false, or a finalize that returned
               \*          the path
  rIndex,      \* SpecCAF: the CAFDeserializer's cached index
  rLast,       \* SpecCAF: the last reader call, [op, path, loaded, r]
  rArchive     \* SpecCAF: the file at the CAFDeserializer's archivePath

VARIABLES
  broker,      \* Spec: the queue's view of each message: 0 ready, -1 acked,
               \*       else the delivery tag of its unacked delivery
  deliveries,  \* Spec: the number of deliveries made, the last delivery tag
  conn,        \* Spec: the number of the current connection (and its processor)
  chanErr,     \* Spec: the current channel was closed by a protocol error
  procs,       \* Spec: per connection, the CAFBatchProcessor and its consumer
  catalog,     \* Spec: the rows of jackal_files, in insertion order
  blob         \* Spec: the containers uploaded, blob[n] under the n-th name

VARIABLES
  reqs,         \* SpecWeb: the WebServer's requests, per slot
  tmp,          \* SpecWeb: config.tempDir, the local file of each bundle
  keepCafFiles, \* SpecWeb: config.keepCafFiles
  jjs,          \* SpecWeb: whether this.jjs has been set
  proofCache,   \* SpecWeb: the entries of proofCache, [key, timestamp]
  now           \* SpecWeb: Date.now(), in cleanup intervals of 30 s

VARIABLES
  simple        \* SpecSimple: the SimpleCAFProcessor, its consumer and the
                \*             broker's view of the delivery it awaits

cafVars == <<writer, goSerializer, goRet, calls, lastCall, added, exact, streamed, rIndex, rLast, rArchive>>
pipeVars == <<broker, deliveries, conn, chanErr, procs, catalog, blob>>
webVars == <<reqs, tmp, keepCafFiles, jjs, proofCache, now>>
vars == <<cafVars, pipeVars, webVars, simple>>

\* ------------------------------------------------------------------ cells
DataCell(p, i) == [k |-> "data", p |-> p, a |-> i, b |-> 0]
VerCell(v) == [k |-> "ver", p |-> v, a |-> 0, b |-> 0]
FileCell(p, s, e) == [k |-> "file", p |-> p, a |-> s, b |-> e]
U8Cell(n) == [k |-> "u8", p |-> "", a |-> n, b |-> 0]
\* what a Buffer.allocUnsafe byte holds when a read did not fill it
UninitCell == [k |-> "uninit", p |-> "", a |-> 0, b |-> 0]

\* the bytes of the source object of a member path: byte i of path p
FileBytes(p, n) == [i \in 1..n |-> DataCell(p, i)]

Prefix(s, n) == SubSeq(s, 1, n)

\* ------------------------------------------------- JavaScript objects
\* fileIndex: Record<string, CAFFileMetadata> = {} is a plain object: own
\* properties in insertion order, and a prototype.  proto.kind is
\* "Object.prototype" until an assignment to "__proto__" replaces it.
Meta(s, e) == [start_byte |-> s, end_byte |-> e]
ObjectPrototype == [kind |-> "Object.prototype", start_byte |-> 0, end_byte |-> 0]
EmptyObject == [own |-> <<>>, proto |-> ObjectPrototype]

OwnKeys(obj) == {obj.own[i].path : i \in 1..Len(obj.own)}
OwnIdx(obj, key) == CHOOSE i \in 1..Len(obj.own) : obj.own[i].path = key

\* obj[key] = value
SetProp(obj, key, m) ==
  IF key = "__proto__"
  THEN [obj EXCEPT !.proto = [kind |-> "meta", start_byte |-> m.start_byte,
                              end_byte |-> m.end_byte]]
  ELSE IF key \in OwnKeys(obj)
  THEN [obj EXCEPT !.own[OwnIdx(obj, key)] =
          [path |-> key, start_byte |-> m.start_byte, end_byte |-> m.end_byte]]
  ELSE [obj EXCEPT !.own = Append(@,
          [path |-> key, start_byte |-> m.start_byte, end_byte |-> m.end_byte])]

\* obj[key]: kind "meta" (a metadata object), "object" (some other object,
\* truthy, without numeric start_byte/end_byte) or "undefined"
GetProp(obj, key) ==
  IF key \in OwnKeys(obj)
  THEN [kind |-> "meta", start_byte |-> obj.own[OwnIdx(obj, key)].start_byte,
        end_byte |-> obj.own[OwnIdx(obj, key)].end_byte]
  ELSE IF key = "__proto__"
  THEN (IF obj.proto.kind = "meta"
        THEN [kind |-> "meta", start_byte |-> obj.proto.start_byte,
              end_byte |-> obj.proto.end_byte]
        ELSE [kind |-> "object", start_byte |-> 0, end_byte |-> 0])
  ELSE [kind |-> "undefined", start_byte |-> 0, end_byte |-> 0]

\* ------------------------------------------------------------ CAFSerializer
\* new CAFSerializer(outputPath, maxChunkSizeGB)
NewCAF(max) ==
  [currentPosition |-> 0, fileIndex |-> EmptyObject, maxChunkSize |-> max,
   disk |-> <<>>, writeStream |-> "open"]

\* writeStream is "open", "finalizing" (finalize has queued the index and not
\* yet ended the stream), "finished" (finalize ended and destroyed it) or
\* "errored" (a write failed, which destroys it); writeStream.destroyed is
\* true of the last two
Destroyed(w) == w.writeStream \notin {"open", "finalizing"}

ExceedsChunkSizeIgnoringPosition(w, len) == len > w.maxChunkSize

\* the capacity check both appends start with
ExceedsChunkSize(w, len) == w.currentPosition + len > w.maxChunkSize

\* addFile(filePath, fileData); wr = "ok" or "error" is how the write ends,
\* and on an error `written` bytes of fileData reached the file
AddFile(w, filePath, fileData, wr, written) ==
  IF ExceedsChunkSize(w, Len(fileData))
  THEN [w |-> w, ret |-> "false"]
  ELSE IF Destroyed(w)
  THEN [w |-> w, ret |-> "error"]
  ELSE IF wr = "error"
  THEN [w |-> [w EXCEPT !.disk = @ \o Prefix(fileData, written),
                        !.writeStream = "errored"],
        ret |-> "error"]
  ELSE [w |-> [w EXCEPT
                 !.disk = @ \o fileData,
                 !.fileIndex = SetProp(@, filePath,
                    Meta(w.currentPosition, w.currentPosition + Len(fileData))),
                 !.currentPosition = @ + Len(fileData)],
        ret |-> "true"]

\* stream.pipe(this.writeStream, {end: false})
PipeChunks(w, chunks) == [w EXCEPT !.disk = @ \o chunks]

\* the stream's 'end' handler
OnStreamEnd(w, filePath, startByte, contentLength) ==
  [w EXCEPT !.fileIndex = SetProp(@, filePath,
                             Meta(startByte, w.currentPosition + contentLength)),
            !.currentPosition = @ + contentLength]

\* addFileFromStream(filePath, stream, contentLength); the stream yields
\* `chunks` and then the copy ends with "end", with "error" (the stream's
\* error event or the copy deadline) or with "werror" (the write stream's
\* error event).  pipe() writes every chunk the stream yields; only "end"
\* records the member, with the declared contentLength.
AddFileFromStream(w, filePath, chunks, ending, contentLength) ==
  IF ExceedsChunkSize(w, contentLength)
  THEN [w |-> w, ret |-> "false"]
  ELSE IF Destroyed(w)
  THEN [w |-> w, ret |-> "error"]
  ELSE IF ending = "error"
  THEN [w |-> PipeChunks(w, chunks), ret |-> "error"]
  ELSE IF ending = "werror"
  THEN [w |-> [PipeChunks(w, chunks) EXCEPT !.writeStream = "errored"],
        ret |-> "error"]
  ELSE [w |-> OnStreamEnd(PipeChunks(w, chunks), filePath, w.currentPosition,
                          contentLength),
        ret |-> "true"]

\* JSON.stringify(index): the own enumerable properties, in order
IndexJson(obj) ==
  <<VerCell("1.0")>> \o
  [i \in 1..Len(obj.own) |->
     FileCell(obj.own[i].path, obj.own[i].start_byte, obj.own[i].end_byte)]

\* footerBuffer.writeUInt32LE(indexSize, 0)
WriteUInt32LE(n) ==
  <<U8Cell(n % 256), U8Cell((n \div 256) % 256),
    U8Cell((n \div 65536) % 256), U8Cell((n \div 16777216) % 256)>>

\* finalize(), the part that runs when it is called: the index is
\* stringified and its write queued
FinalizeBegin(w) ==
  [w EXCEPT !.disk = @ \o IndexJson(w.fileIndex), !.writeStream = "finalizing"]

\* finalize(), the write callbacks: the footer with the index size taken at
\* the call, then end() and destroy()
FinalizeEnd(w, indexSize) ==
  [w EXCEPT !.disk = @ \o WriteUInt32LE(indexSize), !.writeStream = "finished"]

\* finalize(); wr as in AddFile
Finalize(w, wr) ==
  IF Destroyed(w)
  THEN [w |-> w, ret |-> "error"]
  ELSE IF wr = "error"
  THEN [w |-> [w EXCEPT !.writeStream = "errored"], ret |-> "error"]
  ELSE [w |-> FinalizeEnd(FinalizeBegin(w), Len(IndexJson(w.fileIndex))),
        ret |-> "path"]

\* ------------------------------------------- the Go CAFSerializer (caf.go)
\* NewCAFSerializer(outputPath, maxChunkSizeGB).  fileIndex is a Go map, a
\* set of [path, start_byte, end_byte] with one element per path; writer is
\* "open", "failed" (a bufio.Writer keeps its first write error) or "nil"
\* (Finalize has cleared it)
NewCAFSerializer(max) ==
  [currentPos |-> 0, fileIndex |-> {}, maxChunkSize |-> max, disk |-> <<>>,
   writer |-> "open"]

\* s.fileIndex[filePath] = CAFFileMetadata{startByte, endByte}; s.currentPos = endByte
GoRecord(w, filePath, startByte, endByte) ==
  [w EXCEPT !.fileIndex = {e \in @ : e.path # filePath} \cup
                            {[path |-> filePath, start_byte |-> startByte,
                              end_byte |-> endByte]},
            !.currentPos = endByte]

\* AddFile(filePath, data); a call on the nil writer of a finalized
\* serializer is a nil pointer dereference
GoAddFile(w, filePath, data, wr, written) ==
  IF w.currentPos + Len(data) > w.maxChunkSize
  THEN [w |-> w, ret |-> "false"]
  ELSE IF w.writer = "nil"
  THEN [w |-> w, ret |-> "panic"]
  ELSE IF w.writer = "failed"
  THEN [w |-> w, ret |-> "error"]
  ELSE IF wr = "error"
  THEN [w |-> [w EXCEPT !.disk = @ \o Prefix(data, written), !.writer = "failed"],
        ret |-> "error"]
  ELSE [w |-> GoRecord([w EXCEPT !.disk = @ \o data], filePath, w.currentPos,
                       w.currentPos + Len(data)),
        ret |-> "true"]

\* AddFileFromReader(filePath, reader, contentLength): io.Copy writes what
\* the reader yields; a reader or writer error, or a count other than
\* contentLength, is an error that leaves the bytes and not the entry
AddFileFromReader(w, filePath, chunks, ending, contentLength) ==
  IF w.currentPos + contentLength > w.maxChunkSize
  THEN [w |-> w, ret |-> "false"]
  ELSE IF w.writer = "nil"
  THEN [w |-> w, ret |-> "panic"]
  ELSE IF w.writer = "failed"
  THEN [w |-> w, ret |-> "error"]
  ELSE IF ending = "werror"
  THEN [w |-> [w EXCEPT !.disk = @ \o chunks, !.writer = "failed"], ret |-> "error"]
  ELSE IF ending = "error" \/ Len(chunks) # contentLength
  THEN [w |-> [w EXCEPT !.disk = @ \o chunks], ret |-> "error"]
  ELSE [w |-> GoRecord([w EXCEPT !.disk = @ \o chunks], filePath, w.currentPos,
                       w.currentPos + contentLength),
        ret |-> "true"]

\* the member paths of the model in the byte order json.Marshal sorts map
\* keys by
SortedPaths == <<"__proto__", "a", "b">>

\* json.Marshal(index)
GoIndexJson(fileIndex) ==
  LET keys == SelectSeq(SortedPaths, LAMBDA p : \E e \in fileIndex : e.path = p)
      At(p) == CHOOSE e \in fileIndex : e.path = p
  IN <<VerCell("1.0")>> \o
     [i \in 1..Len(keys) |->
        FileCell(keys[i], At(keys[i]).start_byte, At(keys[i]).end_byte)]

\* Finalize(): index, footer, flush, close, and the writer set to nil
GoFinalize(w, wr) ==
  IF w.writer = "nil"
  THEN [w |-> w, ret |-> "panic"]
  ELSE IF w.writer = "failed"
  THEN [w |-> w, ret |-> "error"]
  ELSE IF wr = "error"
  THEN [w |-> [w EXCEPT !.writer = "failed"], ret |-> "error"]
  ELSE [w |-> [w EXCEPT !.disk = @ \o GoIndexJson(w.fileIndex)
                                  \o WriteUInt32LE(Len(GoIndexJson(w.fileIndex))),
                        !.writer = "nil"],
        ret |-> "path"]

\* ---------------------------------------------------------- CAFDeserializer
NoIndex == [loaded |-> FALSE, format_version |-> "", files |-> EmptyObject]

\* footerBuffer.readUInt32LE(0) of the four cells at `at`
ReadUInt32LE(file, at) ==
  file[at + 1].a + 256 * file[at + 2].a + 65536 * file[at + 3].a
    + 16777216 * file[at + 4].a

\* JSON.parse of the index cells: every member becomes an own property
ParseFiles(cells) ==
  [own |-> [i \in 1..(Len(cells) - 1) |->
              [path |-> cells[i + 1].p, start_byte |-> cells[i + 1].a,
               end_byte |-> cells[i + 1].b]],
   proto |-> ObjectPrototype]

IsIndexJson(cells) ==
  /\ Len(cells) >= 1
  /\ cells[1].k = "ver"
  /\ \A i \in 2..Len(cells) : cells[i].k = "file"

\* loadIndex(): the index it caches, or NoIndex when it throws
LoadIndex(file) ==
  IF Len(file) < 4 \/ \E i \in (Len(file) - 3)..Len(file) : file[i].k # "u8"
  THEN NoIndex
  ELSE LET indexSize == ReadUInt32LE(file, Len(file) - 4)
           indexStart == Len(file) - 4 - indexSize
       IN IF indexStart < 0
          THEN NoIndex
          ELSE LET cells == SubSeq(file, indexStart + 1, indexStart + indexSize)
               IN IF IsIndexJson(cells)
                  THEN [loaded |-> TRUE, format_version |-> cells[1].p,
                        files |-> ParseFiles(cells)]
                  ELSE NoIndex

\* getFileList(): Object.keys(this.index.files)
GetFileList(index) == [i \in 1..Len(index.files.own) |-> index.files.own[i].path]

\* fileHandle.read(buffer, 0, size, start): the bytes of the file, and the
\* buffer's own bytes where the file has ended
ReadAt(file, start, size) ==
  [i \in 1..size |-> IF start + i <= Len(file) THEN file[start + i] ELSE UninitCell]

\* what a reader method gives: it returns (ok) or throws (err); data is a
\* Buffer or a metadata object as cells, list a string[], flag a boolean or
\* non-null, version a string
NoResult == [ok |-> FALSE, err |-> "", data |-> <<>>, list |-> <<>>,
             flag |-> FALSE, version |-> ""]
Throws(e) == [NoResult EXCEPT !.err = e]
Returns == [NoResult EXCEPT !.ok = TRUE]

IndexLoadedAlways(index) == TRUE

\* the test every method but loadIndex starts with: if (!this.index) throw
IndexLoaded(index) == index.loaded

\* extractFile(filePath)
ExtractFile(index, file, filePath) ==
  IF ~IndexLoaded(index)
  THEN Throws("Index not loaded")
  ELSE LET fileMetadata == GetProp(index.files, filePath)
       IN IF fileMetadata.kind = "undefined"
          THEN Throws("not found in archive")
          ELSE IF fileMetadata.kind = "object"
          THEN Throws("size")
          ELSE IF fileMetadata.end_byte - fileMetadata.start_byte < 0
          THEN Throws("size")
          ELSE [Returns EXCEPT
                  !.data = ReadAt(file, fileMetadata.start_byte,
                                  fileMetadata.end_byte - fileMetadata.start_byte)]

\* getFileList() as called, with its test
FileList(index) ==
  IF ~IndexLoaded(index)
  THEN Throws("Index not loaded")
  ELSE [Returns EXCEPT !.list = GetFileList(index)]

\* hasFile(filePath): filePath in this.index.files, which is also true of
\* what the object inherits from its prototype
HasFile(index, filePath) ==
  IF ~IndexLoaded(index)
  THEN Throws("Index not loaded")
  ELSE [Returns EXCEPT !.flag = (GetProp(index.files, filePath).kind # "undefined")]

\* getFileMetadata(filePath): this.index.files[filePath] || null
GetFileMetadata(index, filePath) ==
  IF ~IndexLoaded(index)
  THEN Throws("Index not loaded")
  ELSE LET fileMetadata == GetProp(index.files, filePath)
       IN [Returns EXCEPT
             !.flag = (fileMetadata.kind # "undefined"),
             !.data = IF fileMetadata.kind = "meta"
                      THEN <<FileCell(filePath, fileMetadata.start_byte,
                                      fileMetadata.end_byte)>>
                      ELSE <<>>]

\* getFormatVersion()
GetFormatVersion(index) ==
  IF ~IndexLoaded(index)
  THEN Throws("Index not loaded")
  ELSE [Returns EXCEPT !.version = index.format_version]

\* the bytes extractAll has written for the first n members of the list
RECURSIVE Extracted(_, _, _)
Extracted(index, file, n) ==
  IF n = 0
  THEN <<>>
  ELSE Extracted(index, file, n - 1)
         \o ExtractFile(index, file, GetFileList(index)[n]).data

\* extractAll(outputDir): every member of the list in order, up to the first
\* extractFile that throws; list and data are what reached outputDir
ExtractAll(index, file) ==
  IF ~IndexLoaded(index)
  THEN Throws("Index not loaded")
  ELSE LET keys == GetFileList(index)
           bad == {i \in 1..Len(keys) : ~ExtractFile(index, file, keys[i]).ok}
           n == IF bad = {} THEN Len(keys)
                ELSE (CHOOSE i \in bad : \A j \in bad : i <= j) - 1
       IN [(IF bad = {} THEN Returns ELSE Throws("size")) EXCEPT
             !.list = SubSeq(keys, 1, n),
             !.data = Extracted(index, file, n)]

\* format_version values of the containers handed to a reader; "2.0" is what
\* a later writer would put
Versions == {"1.0", "2.0"}

\* the container `file` as a writer of format version v writes it
WithVersion(file, v) ==
  [i \in 1..Len(file) |-> IF file[i].k = "ver" THEN VerCell(v) ELSE file[i]]

\* the last reader call: the method, its argument, whether a loadIndex had
\* succeeded before it, and what it gave
NoExtract == [op |-> "none", path |-> "", loaded |-> FALSE, r |-> NoResult]

\* ------------------------------------------- the queue, the object store
\* const prefetch: the channel's prefetch count and the batch ceiling
Prefetch == 2
\* deliveries (first and repeated) in one behaviour of Spec
MaxDeliveries == 2
\* connections in one behaviour of Spec: the first and MaxConn - 1 reconnects
MaxConn == 2
\* the writers one processor can refer to at once: currentCAF, the one being
\* copied into, and the one of each running finalizeCurrentCAF
MaxCafs == 4

Msgs == {1, 2, 3, 4, 5}
Conns == 1..MaxConn
CafIds == 1..MaxCafs

\* JSON.parse(msg.content.toString()) of message m, and whether it throws.
\* Message 4 is {"task_id": 7, "file_path": "x"}: task_id is a number, which
\* the template literal and the INSERT parameter turn into the text "7";
\* typed is whether task_id and file_path are strings.  Message 5 is no JSON.
Body(m) ==
  CASE m = 1 -> [parse |-> "ok", typed |-> TRUE, task_id |-> "T", file_path |-> "x"]
    [] m = 2 -> [parse |-> "ok", typed |-> TRUE, task_id |-> "T", file_path |-> "y"]
    [] m = 3 -> [parse |-> "ok", typed |-> TRUE, task_id |-> "T", file_path |-> "big"]
    [] m = 4 -> [parse |-> "ok", typed |-> FALSE, task_id |-> "7", file_path |-> "x"]
    [] OTHER -> [parse |-> "throws", typed |-> FALSE, task_id |-> "", file_path |-> ""]

\* the size of the object stored under a key: "x" and "y" fill one
\* container together, "big" is larger than any container
ObjectLength(filePath) ==
  CASE filePath = "x" -> 1
    [] filePath = "y" -> MaxChunkSize - 1
    [] OTHER -> MaxChunkSize + 1

ObjectBytes(filePath) == FileBytes(filePath, ObjectLength(filePath))

\* `${taskId}/${filePath}`
MemberPath(taskId, filePath) ==
  CASE taskId = "T" /\ filePath = "x" -> "T/x"
    [] taskId = "T" /\ filePath = "y" -> "T/y"
    [] taskId = "T" /\ filePath = "big" -> "T/big"
    [] taskId = "7" /\ filePath = "x" -> "7/x"
    [] OTHER -> "/"

\* downloadFileStream's contentLength: response.ContentLength || 0
ContentLength(dl, filePath) == IF dl = "ok" THEN ObjectLength(filePath) ELSE 0

\* ------------------------------------------------------ CAFBatchProcessor
\* a delivered message: the message and the delivery tag of this delivery
NoMsg == [id |-> 0, tag |-> 0]

NoCAF == [currentPosition |-> 0, fileIndex |-> EmptyObject, maxChunkSize |-> 0,
          disk |-> <<>>, writeStream |-> "none"]

\* a running processMessage: where it waits, its message, the writer it
\* copies into and the contentLength it passed
IdlePm == [pc |-> "idle", msg |-> NoMsg, caf |-> 0, declared |-> 0]

\* a finalizeCurrentCAF past its early return: where it waits, its
\* currentCAF and currentMessages, the loop index, finalize's indexSize and
\* whether finalize rejected at once, and the name the container was
\* uploaded under
IdleHandoff ==
  [pc |-> "idle", caf |-> 0, msgs |-> <<>>, i |-> 0, indexSize |-> 0,
   rejected |-> FALSE, name |-> 0]

\* new CAFBatchProcessor(jjs), with isProcessing and messageQueue of its
\* connection; cafs holds the CAFSerializer objects it refers to; hp is the
\* finalizeCurrentCAF called by processMessage, ht the one called by the
\* timer; files counts the container files its writers have created in the
\* temp directory and nothing has unlinked
NewProc ==
  [currentCAF |-> 0, cafs |-> [i \in CafIds |-> NoCAF], pendingMessages |-> <<>>,
   inactivityTimer |-> "none", messageQueue |-> <<>>, isProcessing |-> FALSE,
   pm |-> IdlePm, hp |-> IdleHandoff, ht |-> IdleHandoff, files |-> 0]

Refs(p) == {p.currentCAF, p.pm.caf, p.hp.caf, p.ht.caf} \ {0}
FreeId(p) == CHOOSE i \in CafIds \ Refs(p) : \A j \in CafIds \ Refs(p) : i <= j
\* writers nothing refers to any more are garbage
Collect(p) ==
  [p EXCEPT !.cafs = [i \in CafIds |-> IF i \in Refs(p) THEN p.cafs[i] ELSE NoCAF]]

\* startInactivityTimer(channel), clearInactivityTimer(): "none" is null,
\* "fired" a Timeout that has run
StartInactivityTimer(p) == [p EXCEPT !.inactivityTimer = "armed"]
ClearInactivityTimer(p) == [p EXCEPT !.inactivityTimer = "none"]

\* this.currentCAF = new CAFSerializer(undefined, CAF_MAX_SIZE_GB); the
\* constructor's createWriteStream creates the temp file
CreateCAF(p) ==
  [p EXCEPT !.currentCAF = FreeId([p EXCEPT !.currentCAF = 0]),
            !.cafs[FreeId([p EXCEPT !.currentCAF = 0])] = NewCAF(MaxChunkSize),
            !.files = @ + 1]

\* if (!this.currentCAF) this.currentCAF = new CAFSerializer(...)
EnsureCAF(p) == IF p.currentCAF = 0 THEN CreateCAF(p) ELSE p

\* this.pendingMessages.push({msg, taskId, filePath})
PushPending(p) == [p EXCEPT !.pendingMessages = Append(@, p.pm.msg)]

\* finalizeCurrentCAF does not return at its first line
Started(p) == p.currentCAF # 0 /\ p.pendingMessages # <<>>

\* finalizeCurrentCAF up to its first await: the state is captured and
\* reset, the timer cleared, and currentCAF.finalize() called
BeginFinalize(p, slot) ==
  LET w == p.cafs[p.currentCAF]
  IN [ClearInactivityTimer(p) EXCEPT
        ![slot] = [IdleHandoff EXCEPT
                     !.pc = "finalize", !.caf = p.currentCAF,
                     !.msgs = p.pendingMessages, !.i = 1,
                     !.indexSize = Len(IndexJson(w.fileIndex)),
                     !.rejected = Destroyed(w)],
        !.cafs[p.currentCAF] = IF Destroyed(w) THEN w ELSE FinalizeBegin(w),
        !.currentCAF = 0,
        !.pendingMessages = <<>>]

\* lines 75-76 and 139-149: a message whose JSON.parse throws is nacked in
\* the catch before processMessage ever waits, and processNextMessage goes
\* on to the next message of the queue
RECURSIVE Unparsable(_)
Unparsable(q) ==
  IF q # <<>> /\ Body(Head(q).id).parse = "throws"
  THEN 1 + Unparsable(Tail(q))
  ELSE 0

\* the messages the processNextMessage called on p nacks for their body
ParseNacked(p) ==
  IF p.isProcessing
  THEN {}
  ELSE {p.messageQueue[i] : i \in 1..Unparsable(p.messageQueue)}

\* processNextMessage(), up to the first await of a processMessage
ProcessNextMessage(p) ==
  LET q == SubSeq(p.messageQueue, Unparsable(p.messageQueue) + 1,
                  Len(p.messageQueue))
  IN IF p.isProcessing
     THEN p
     ELSE IF q = <<>>
     THEN [p EXCEPT !.messageQueue = <<>>]
     ELSE [p EXCEPT !.isProcessing = TRUE,
                    !.messageQueue = Tail(q),
                    !.pm = [IdlePm EXCEPT !.pc = "dl1", !.msg = Head(q)]]

\* processMessage has returned or thrown: processNextMessage's finally
Finally(p) == [p EXCEPT !.isProcessing = FALSE, !.pm = IdlePm]
Returned(p) == ProcessNextMessage(Finally(p))

\* lines 115-120: the timer, a new writer, the second download
AfterFull(p) ==
  [CreateCAF(StartInactivityTimer(p)) EXCEPT !.pm.pc = "dl2", !.pm.caf = 0]

\* ------------------------------------------------------------ Spec: actions
PipeIdle ==
  /\ broker = [m \in Msgs |-> 0]
  /\ deliveries = 0
  /\ conn = 1
  /\ chanErr = FALSE
  /\ procs = [g \in Conns |-> NewProc]
  /\ catalog = <<>>
  /\ blob = <<>>

\* the channel of connection g accepts ack and nack; on a closed channel
\* they throw IllegalOperationError
ChanOpen(g) == g = conn /\ ~chanErr

\* the delivery tag of a message object is the one the broker waits for
Valid(mo) == broker[mo.id] = mo.tag

\* the broker's side of channel.nack(mo, false, true) for mo in nacks and
\* channel.ack(mo) for mo in acks on the open channel; a tag it does not
\* know closes the channel, which requeues every unacked message
ChannelOps(nacks, acks) ==
  IF \A mo \in nacks \cup acks : Valid(mo)
  THEN /\ broker' = [m \in Msgs |->
                       IF \E mo \in acks : mo.id = m THEN -1
                       ELSE IF \E mo \in nacks : mo.id = m THEN 0
                       ELSE broker[m]]
       /\ chanErr' = chanErr
  ELSE /\ broker' = [m \in Msgs |-> IF broker[m] > 0 THEN 0 ELSE broker[m]]
       /\ chanErr' = TRUE

\* processMessage goes on waiting, or a step ends, without channel calls
PmAwait(g, p) ==
  /\ procs' = [procs EXCEPT ![g] = Collect(p)]
  /\ UNCHANGED <<broker, chanErr>>

\* processMessage returns normally
PmReturn(g, p) ==
  /\ procs' = [procs EXCEPT ![g] = Collect(Returned(p))]
  /\ IF ChanOpen(g)
     THEN ChannelOps(ParseNacked(Finally(p)), {})
     ELSE UNCHANGED <<broker, chanErr>>

\* processMessage's catch: channel.nack(msg, false, true), then the finally
\* of processNextMessage whether or not the nack threw
PmCatch(g, p) ==
  /\ procs' = [procs EXCEPT ![g] = Collect(Returned(p))]
  /\ IF ChanOpen(g)
     THEN ChannelOps({p.pm.msg} \cup ParseNacked(Finally(p)), {})
     ELSE UNCHANGED <<broker, chanErr>>

\* the count check with > for >=
CountCheckAbove(g, p) ==
  IF Len(p.pendingMessages) > Prefetch
  THEN IF Started(p)
       THEN PmAwait(g, [BeginFinalize(p, "hp") EXCEPT !.pm.pc = "fin_count"])
       ELSE PmReturn(g, StartInactivityTimer(p))
  ELSE PmReturn(g, p)

\* lines 131-137
CountCheck(g, p) ==
  IF Len(p.pendingMessages) >= Prefetch
  THEN IF Started(p)
       THEN PmAwait(g, [BeginFinalize(p, "hp") EXCEPT !.pm.pc = "fin_count"])
       ELSE PmReturn(g, StartInactivityTimer(p))
  ELSE PmReturn(g, p)

\* the consumer callback: messageQueue.push(msg); processNextMessage()
DeliverUpTo(m, max) ==
  /\ ChanOpen(conn)
  /\ broker[m] = 0
  /\ deliveries < max
  /\ Cardinality({n \in Msgs : broker[n] > 0}) < Prefetch
  /\ deliveries' = deliveries + 1
  /\ LET mo == [id |-> m, tag |-> deliveries + 1]
         p == [procs[conn] EXCEPT !.messageQueue = Append(@, mo)]
     IN /\ procs' = [procs EXCEPT ![conn] = ProcessNextMessage(p)]
        /\ broker' = [broker EXCEPT ![m] = IF mo \in ParseNacked(p) THEN 0
                                           ELSE deliveries + 1]
  /\ UNCHANGED <<conn, chanErr, catalog, blob, cafVars, webVars, simple>>

Deliver(m) == DeliverUpTo(m, MaxDeliveries)

\* lines 82-103: the download resolves or throws; the writer is created if
\* there is none, the timer reset, and addFileFromStream called
PmDownload1(g) ==
  LET p == procs[g]
  IN /\ p.pm.pc = "dl1"
     /\ \E dl \in {"ok", "nolength", "throw"} :
          IF dl = "throw"
          THEN PmCatch(g, p)
          ELSE LET d == ContentLength(dl, Body(p.pm.msg.id).file_path)
                   p1 == StartInactivityTimer(EnsureCAF(p))
                   w == p1.cafs[p1.currentCAF]
               IN IF ExceedsChunkSize(w, d)
                  THEN (IF Started(p1)
                        THEN PmAwait(g, [BeginFinalize(p1, "hp")
                                           EXCEPT !.pm.pc = "fin_full"])
                        ELSE PmAwait(g, AfterFull(p1)))
                  ELSE IF Destroyed(w)
                  THEN PmCatch(g, p1)
                  ELSE PmAwait(g, [p1 EXCEPT !.pm.pc = "add1",
                                             !.pm.caf = p1.currentCAF,
                                             !.pm.declared = d])
     /\ UNCHANGED <<deliveries, conn, catalog, blob, cafVars, webVars, simple>>

\* the copy of the running addFileFromStream ends; r is what the call makes
\* of the writer it was called on
CopyResult(p, ending) ==
  AddFileFromStream(p.cafs[p.pm.caf],
                    MemberPath(Body(p.pm.msg.id).task_id, Body(p.pm.msg.id).file_path),
                    ObjectBytes(Body(p.pm.msg.id).file_path), ending, p.pm.declared)

AfterCopy(p, r) == [p EXCEPT !.cafs[p.pm.caf] = r.w, !.pm.caf = 0]

\* lines 103-108 and 131-137: added is true (line 108 reads this.currentCAF)
PmAdd1(g) ==
  LET p == procs[g]
  IN /\ p.pm.pc = "add1"
     /\ \E ending \in {"end", "error", "werror"} :
          LET r == CopyResult(p, ending)
              p1 == AfterCopy(p, r)
          IN IF r.ret # "true"
             THEN PmCatch(g, p1)
             ELSE IF p1.currentCAF = 0
             THEN PmCatch(g, PushPending(p1))
             ELSE CountCheck(g, PushPending(p1))
     /\ UNCHANGED <<deliveries, conn, catalog, blob, cafVars, webVars, simple>>

\* lines 124-137
AfterSecondAdd(g, p) == CountCheck(g, StartInactivityTimer(PushPending(p)))

\* lines 120-123: the second download; addFileFromStream's result is dropped
PmDownload2(g) ==
  LET p == procs[g]
  IN /\ p.pm.pc = "dl2"
     /\ \E dl \in {"ok", "nolength", "throw"} :
          IF dl = "throw"
          THEN PmCatch(g, p)
          ELSE LET d == ContentLength(dl, Body(p.pm.msg.id).file_path)
                   w == p.cafs[p.currentCAF]
               IN IF ExceedsChunkSize(w, d)
                  THEN AfterSecondAdd(g, p)
                  ELSE IF Destroyed(w)
                  THEN PmCatch(g, p)
                  ELSE PmAwait(g, [p EXCEPT !.pm.pc = "add2",
                                            !.pm.caf = p.currentCAF,
                                            !.pm.declared = d])
     /\ UNCHANGED <<deliveries, conn, catalog, blob, cafVars, webVars, simple>>

PmAdd2(g) ==
  LET p == procs[g]
  IN /\ p.pm.pc = "add2"
     /\ \E ending \in {"end", "error", "werror"} :
          LET r == CopyResult(p, ending)
              p1 == AfterCopy(p, r)
          IN IF r.ret = "error"
             THEN PmCatch(g, p1)
             ELSE AfterSecondAdd(g, p1)
     /\ UNCHANGED <<deliveries, conn, catalog, blob, cafVars, webVars, simple>>

\* the finalizeCurrentCAF that processMessage awaits has returned or thrown
PmResume(g) ==
  LET p == procs[g]
      p1 == [p EXCEPT !.hp = IdleHandoff]
  IN /\ p.pm.pc \in {"fin_full", "fin_count"}
     /\ p.hp.pc \in {"returned", "threw"}
     /\ IF p.hp.pc = "threw"
        THEN PmCatch(g, p1)
        ELSE IF p.pm.pc = "fin_full"
        THEN PmAwait(g, AfterFull(p1))
        ELSE PmReturn(g, StartInactivityTimer(p1))
     /\ UNCHANGED <<deliveries, conn, catalog, blob, cafVars, webVars, simple>>

\* the inactivity timer's callback; the model runs one timer-called
\* finalizeCurrentCAF per processor at a time
TimerFire(g) ==
  LET p == procs[g]
      p1 == [p EXCEPT !.inactivityTimer = "fired"]
  IN /\ p.inactivityTimer = "armed"
     /\ p.ht.pc = "idle"
     /\ PmAwait(g, IF Started(p1) THEN BeginFinalize(p1, "ht") ELSE p1)
     /\ UNCHANGED <<deliveries, conn, catalog, blob, cafVars, webVars, simple>>

\* ------------------------------------------- Spec: finalizeCurrentCAF steps
Slots == {"hp", "ht"}

MsgSet(msgs) == {msgs[i] : i \in 1..Len(msgs)}
MsgIds(msgs) == {msgs[i].id : i \in 1..Len(msgs)}

\* a step of the finalizeCurrentCAF in slot s leaves it as h
HStep(g, s, h) == procs' = [procs EXCEPT ![g] = Collect([@ EXCEPT ![s] = h])]

\* finalizeCurrentCAF has returned or thrown: processMessage, which awaits
\* it, sees which; nothing awaits the timer's
Ended(s, how) == IF s = "hp" THEN [IdleHandoff EXCEPT !.pc = how] ELSE IdleHandoff

\* lines 198-204: every message of the batch is nacked; the first nack
\* throws on a closed channel
NackAll(g, s, p, h) ==
  /\ procs' = [procs EXCEPT ![g] = Collect(
        [p EXCEPT ![s] = Ended(s, IF ChanOpen(g) THEN "returned" ELSE "threw")])]
  /\ IF ChanOpen(g)
     THEN ChannelOps(MsgSet(h.msgs), {})
     ELSE UNCHANGED <<broker, chanErr>>

\* line 169: currentCAF.finalize() resolves or rejects
HFinalize(g, s) ==
  LET p == procs[g]
      h == p[s]
  IN /\ h.pc = "finalize"
     /\ \E wr \in {"ok", "error"} :
          IF h.rejected
          THEN NackAll(g, s, p, h)
          ELSE IF wr = "error" \/ Destroyed(p.cafs[h.caf])
          THEN NackAll(g, s, [p EXCEPT !.cafs[h.caf].writeStream = "errored"], h)
          ELSE /\ procs' = [procs EXCEPT ![g] = Collect(
                    [p EXCEPT !.cafs[h.caf] = FinalizeEnd(@, h.indexSize),
                              ![s] = [h EXCEPT !.pc = "upload"]])]
               /\ UNCHANGED <<broker, chanErr>>
     /\ UNCHANGED <<deliveries, conn, catalog, blob, cafVars, webVars, simple>>

\* lines 174-175: the container is stored under a name no earlier upload
\* used, or the upload throws
HUpload(g, s) ==
  LET p == procs[g]
      h == p[s]
  IN /\ h.pc = "upload"
     /\ \E up \in {"ok", "throw"} :
          IF up = "ok"
          THEN /\ blob' = Append(blob, p.cafs[h.caf].disk)
               /\ HStep(g, s, [h EXCEPT !.pc = "save", !.name = Len(blob) + 1])
               /\ UNCHANGED <<broker, chanErr>>
          ELSE /\ blob' = blob
               /\ NackAll(g, s, p, h)
     /\ UNCHANGED <<deliveries, conn, catalog, cafVars, webVars, simple>>

\* saveJackalFile(filePath, taskId, bundleId, jsWorkerId): a plain INSERT
SaveJackalFile(rows, filePath, taskId, bundleId) ==
  Append(rows, [file_path |-> filePath, task_id |-> taskId, bundle_id |-> bundleId])

\* lines 179-192, one turn of the loop: the insert resolves or throws (the
\* throw is logged and dropped), then channel.ack(pendingMsg.msg); an ack
\* that throws lands in the catch of line 198
HSave(g, s) ==
  LET p == procs[g]
      h == p[s]
      mo == h.msgs[h.i]
  IN /\ h.pc = "save"
     /\ \E db \in {"ok", "throw"} :
          catalog' = IF db = "ok"
                     THEN SaveJackalFile(catalog, Body(mo.id).file_path,
                                         Body(mo.id).task_id, h.name)
                     ELSE catalog
     /\ IF ChanOpen(g)
        THEN /\ ChannelOps({}, {mo})
             /\ HStep(g, s, [h EXCEPT
                  !.i = @ + 1,
                  !.pc = IF h.i = Len(h.msgs) THEN "cleanup" ELSE "save"])
        ELSE NackAll(g, s, p, h)
     /\ UNCHANGED <<deliveries, conn, blob, cafVars, webVars, simple>>

\* line 196: cleanupCAF(cafPath) unlinks the file or logs the failure
HCleanup(g, s) ==
  LET p == procs[g]
      h == p[s]
  IN /\ h.pc = "cleanup"
     /\ \E unlink \in {"ok", "throw"} :
          procs' = [procs EXCEPT ![g] = Collect(
            [p EXCEPT ![s] = Ended(s, "returned"),
                      !.files = IF unlink = "ok" THEN @ - 1 ELSE @])]
     /\ UNCHANGED <<broker, deliveries, conn, chanErr, catalog, blob, cafVars, webVars, simple>>

\* the connection closes: the broker requeues what the connection had not
\* settled, keepAlive resolves and main's loop calls it again, which makes a
\* new channel, consumer and CAFBatchProcessor; nothing stops the old one
Reconnect ==
  /\ conn < MaxConn
  /\ conn' = conn + 1
  /\ chanErr' = FALSE
  /\ broker' = [m \in Msgs |-> IF broker[m] > 0 THEN 0 ELSE broker[m]]
  /\ UNCHANGED <<deliveries, procs, catalog, blob, cafVars, webVars, simple>>

\* ---------------------------------------------------------------- WebServer
\* the request slots of the model: each serves one request, and the two may
\* run at once
Reqs == {1, 2}

Routes == {"/file", "/file-info", "/file-proof"}

\* req.params.taskId and req.params.filePath as Express hands them over,
\* decoded, character by character
TaskIds == {<<"T">>, <<"7">>, <<"T", " ">>, <<".", ".">>}
FilePaths ==
  {<<>>, <<"x">>, <<"y">>, <<"x", ".", "y">>, <<".", ".", "/", "x">>,
   <<"x", "~">>, <<"/", "x">>}

RECURSIVE Str(_)
\* the string of a sequence of characters
Str(cs) == IF cs = <<>> THEN "" ELSE Head(cs) \o Str(Tail(cs))

\* the character class [a-zA-Z0-9_-], of the characters the model uses
InClass(c) == c \in {"T", "x", "y", "7", "_", "-"}

\* /^[a-zA-Z0-9_-]+$/.test(taskId)
Test(taskId) ==
  /\ Len(taskId) >= 1
  /\ \A i \in 1..Len(taskId) : InClass(taskId[i])

\* s.includes(sub)
Includes(s, sub) ==
  \E i \in 0..(Len(s) - Len(sub)) : SubSeq(s, i + 1, i + Len(sub)) = sub

\* s.startsWith(pre)
StartsWith(s, pre) == Len(s) >= Len(pre) /\ SubSeq(s, 1, Len(pre)) = pre

DangerousFilePathNoRoot(filePath) ==
  Includes(filePath, <<".", ".">>) \/ Includes(filePath, <<"~">>)

\* filePath.includes('..') || filePath.includes('~') || filePath.startsWith('/')
DangerousFilePath(filePath) ==
  \/ Includes(filePath, <<".", ".">>)
  \/ Includes(filePath, <<"~">>)
  \/ StartsWith(filePath, <<"/">>)

\* the three tests every route starts with: "" when they pass, else the
\* error of the 400 response
Validate(taskId, filePath) ==
  IF taskId = <<>> \/ filePath = <<>>
  THEN "Missing required parameters: taskId and filePath"
  ELSE IF ~Test(taskId)
  THEN "Invalid taskId format"
  ELSE IF DangerousFilePath(filePath)
  THEN "Invalid filePath format"
  ELSE ""

\* a file of the temp directory, or its absence
NoFile == [exists |-> FALSE, data |-> <<>>]
File(data) == [exists |-> TRUE, data |-> data]

\* a request slot.  pc is where its handler stands; issued is the set of
\* outside calls it has issued ("lookup", "download", "proofs"); bundle is the
\* bundle_id of its row; cached is whether downloadCAFFromJackal returned a
\* file that was already there; dl is its call of jjs.downloadCAFFromJackal
\* ("none", "fetching", "resolved", "rejected"); timedOut is whether the
\* deadline won the race; index is the CAFDeserializer's index of
\* extractFileFromCAF
NoRequest ==
  [pc |-> "idle", route |-> "", taskId |-> <<>>, filePath |-> <<>>,
   status |-> 0, body |-> <<>>, issued |-> {}, bundle |-> 0, cached |-> FALSE,
   dl |-> "none", timedOut |-> FALSE, index |-> NoIndex]

\* res.status(n).json(...) or res.send(fileContent), which end the handler
Respond(q, status, body) == [q EXCEPT !.pc = "done", !.status = status, !.body = body]

WebIdle ==
  /\ reqs = [r \in Reqs |-> NoRequest]
  /\ tmp = <<>>
  /\ keepCafFiles = FALSE
  /\ jjs = FALSE
  /\ proofCache = {}
  /\ now = 0

\* the handlers up to the catalog lookup: a request arrives and its
\* parameters are tested
Receive(r) ==
  /\ reqs[r].pc = "idle"
  /\ \E route \in Routes, taskId \in TaskIds, filePath \in FilePaths :
       LET q == [reqs[r] EXCEPT !.route = route, !.taskId = taskId,
                                !.filePath = filePath]
       IN reqs' = [reqs EXCEPT ![r] =
                    IF Validate(taskId, filePath) # ""
                    THEN Respond(q, 400, <<>>)
                    ELSE [q EXCEPT !.pc = "lookup"]]
  /\ UNCHANGED <<tmp, keepCafFiles, jjs, proofCache, now, cafVars, pipeVars, simple>>

\* the rows SELECT * FROM jackal_files WHERE task_id = $1 AND file_path = $2
\* gives, as positions in the table
Selected(taskId, filePath) ==
  {k \in 1..Len(catalog) :
     catalog[k].task_id = Str(taskId) /\ catalog[k].file_path = Str(filePath)}

\* getJackalFileFromDatabase and what each route does with its result; the
\* query has no ORDER BY, so rows[0] is any of the rows selected
Lookup(r) ==
  LET q == [reqs[r] EXCEPT !.issued = @ \cup {"lookup"}]
      rows == Selected(q.taskId, q.filePath)
  IN /\ reqs[r].pc = "lookup"
     /\ \E db \in {"ok", "throw"} :
          IF db = "throw"
          THEN reqs' = [reqs EXCEPT ![r] = Respond(q, 500, <<>>)]
          ELSE IF rows = {}
          THEN reqs' = [reqs EXCEPT ![r] = Respond(q, 404, <<>>)]
          ELSE \E k \in rows :
                 reqs' = [reqs EXCEPT ![r] =
                   IF q.route = "/file-info"
                   THEN Respond(q, 200, <<>>)
                   ELSE [q EXCEPT !.bundle = catalog[k].bundle_id,
                                  !.pc = IF q.route = "/file" THEN "stat1"
                                         ELSE "proof"]]
     /\ UNCHANGED <<tmp, keepCafFiles, jjs, proofCache, now, cafVars, pipeVars, simple>>

ReusableNever(f) == FALSE

\* stats.isFile() && stats.size > 0 of line 390
Reusable(f) == f.exists /\ Len(f.data) > 0

\* downloadCAFFromJackal, lines 388-393: a local file with content is
\* returned as it is
Stat1(r) ==
  LET q == reqs[r]
      f == tmp[q.bundle]
  IN /\ q.pc = "stat1"
     /\ reqs' = [reqs EXCEPT ![r] =
          IF Reusable(f)
          THEN [q EXCEPT !.cached = TRUE, !.pc = "load"]
          ELSE IF f.exists
          THEN [q EXCEPT !.pc = "unlink1"]
          ELSE [q EXCEPT !.pc = "download"]]
     /\ UNCHANGED <<tmp, keepCafFiles, jjs, proofCache, now, cafVars, pipeVars, simple>>

\* lines 394-401: the empty local file is removed; an unlink that throws is
\* caught like a missing file
Unlink1(r) ==
  LET q == reqs[r]
  IN /\ q.pc = "unlink1"
     /\ tmp' = [tmp EXCEPT ![q.bundle] = NoFile]
     /\ reqs' = [reqs EXCEPT ![r].pc = "download"]
     /\ UNCHANGED <<keepCafFiles, jjs, proofCache, now, cafVars, pipeVars, simple>>

\* lines 408-413: this.jjs?.downloadCAFFromJackal(...) is called and raced
\* against the deadline; without a jjs the race is over at once
StartDownload(r) ==
  LET q == reqs[r]
  IN /\ q.pc = "download"
     /\ reqs' = [reqs EXCEPT ![r] =
          IF jjs
          THEN [q EXCEPT !.issued = @ \cup {"download"}, !.dl = "fetching",
                         !.pc = "race"]
          ELSE [q EXCEPT !.pc = "stat2"]]
     /\ UNCHANGED <<tmp, keepCafFiles, jjs, proofCache, now, cafVars, pipeVars, simple>>

\* localJjs.downloadCAFFromJackal settles: the storage handler throws, or
\* gives the container; an empty one is refused before anything is written,
\* else writeFile writes it, or fails after `written` bytes.  A request still
\* in the race goes on with the outcome; one the deadline has already taken
\* out of the race does not hear of it.
DownloadSettles(r) ==
  LET q == reqs[r]
      data == blob[q.bundle]
  IN /\ q.dl = "fetching"
     /\ \E how \in {"throw", "written", "partial"} :
          LET resolved == how = "written" /\ Len(data) > 0
              q2 == [q EXCEPT !.dl = IF resolved THEN "resolved" ELSE "rejected"]
          IN /\ tmp' = IF how = "throw" \/ Len(data) = 0
                       THEN tmp
                       ELSE IF how = "written"
                       THEN [tmp EXCEPT ![q.bundle] = File(data)]
                       ELSE [tmp EXCEPT ![q.bundle] = File(<<>>)]
             /\ reqs' = [reqs EXCEPT ![r] =
                  IF q.pc # "race"
                  THEN q2
                  ELSE [q2 EXCEPT !.pc = IF resolved THEN "stat2" ELSE "catch"]]
     /\ UNCHANGED <<keepCafFiles, jjs, proofCache, now, cafVars, pipeVars, simple>>

\* line 410: the deadline passes before the download has settled
Timeout(r) ==
  LET q == reqs[r]
  IN /\ q.pc = "race"
     /\ q.dl = "fetching"
     /\ reqs' = [reqs EXCEPT ![r] = [q EXCEPT !.timedOut = TRUE, !.pc = "catch"]]
     /\ UNCHANGED <<tmp, keepCafFiles, jjs, proofCache, now, cafVars, pipeVars, simple>>

\* lines 416-419: the file must be there and have content
Stat2(r) ==
  LET q == reqs[r]
      f == tmp[q.bundle]
  IN /\ q.pc = "stat2"
     /\ reqs' = [reqs EXCEPT ![r].pc =
          IF f.exists /\ Len(f.data) > 0 THEN "validate" ELSE "catch"]
     /\ UNCHANGED <<tmp, keepCafFiles, jjs, proofCache, now, cafVars, pipeVars, simple>>

\* lines 424-434: loadIndex and getFileList on the file must not throw
Validated(r) ==
  LET q == reqs[r]
      f == tmp[q.bundle]
  IN /\ q.pc = "validate"
     /\ reqs' = [reqs EXCEPT ![r].pc =
          IF f.exists /\ FileList(LoadIndex(f.data)).ok THEN "load" ELSE "catch"]
     /\ UNCHANGED <<tmp, keepCafFiles, jjs, proofCache, now, cafVars, pipeVars, simple>>

\* lines 435-444 and the route's catch: the local file is unlinked (a failing
\* unlink is ignored) and the request answered 500
Catch(r) ==
  LET q == reqs[r]
  IN /\ q.pc = "catch"
     /\ tmp' = [tmp EXCEPT ![q.bundle] = NoFile]
     /\ reqs' = [reqs EXCEPT ![r] = Respond(q, 500, <<>>)]
     /\ UNCHANGED <<keepCafFiles, jjs, proofCache, now, cafVars, pipeVars, simple>>

\* extractFileFromCAF, lines 453-454: loadIndex; what it throws ends the
\* request with 500
Load(r) ==
  LET q == reqs[r]
      f == tmp[q.bundle]
      index == IF f.exists THEN LoadIndex(f.data) ELSE NoIndex
  IN /\ q.pc = "load"
     /\ reqs' = [reqs EXCEPT ![r] =
          IF index.loaded
          THEN [q EXCEPT !.index = index, !.pc = "extract"]
          ELSE Respond(q, 500, <<>>)]
     /\ UNCHANGED <<tmp, keepCafFiles, jjs, proofCache, now, cafVars, pipeVars, simple>>

\* fileList.find(file => file === fullFilePath)
Find(fileList, fullFilePath) == \E i \in 1..Len(fileList) : fileList[i] = fullFilePath

\* lines 457-478 and 241-253: the member `${taskId}/${targetFilePath}` is
\* looked up in the list and extracted; with keepCafFiles the content is
\* sent, else the local file is cleaned up first
Extract(r) ==
  LET q == reqs[r]
      f == tmp[q.bundle]
      fullFilePath == Str(q.taskId) \o "/" \o Str(q.filePath)
      fileContent == ExtractFile(q.index, f.data, fullFilePath)
  IN /\ q.pc = "extract"
     /\ reqs' = [reqs EXCEPT ![r] =
          IF ~Find(FileList(q.index).list, fullFilePath)
               \/ ~f.exists \/ ~fileContent.ok
          THEN Respond(q, 500, <<>>)
          ELSE IF keepCafFiles
          THEN Respond(q, 200, fileContent.data)
          ELSE [q EXCEPT !.body = fileContent.data, !.pc = "cleanup"]]
     /\ UNCHANGED <<tmp, keepCafFiles, jjs, proofCache, now, cafVars, pipeVars, simple>>

CleanupSkipped(r) ==
  LET q == reqs[r]
  IN /\ q.pc = "cleanup"
     /\ tmp' = tmp
     /\ reqs' = [reqs EXCEPT ![r] = Respond(q, 200, q.body)]
     /\ UNCHANGED <<keepCafFiles, jjs, proofCache, now, cafVars, pipeVars, simple>>

\* cleanupTempFile(cafPath), whose failure is logged, and res.send
Cleanup(r) ==
  LET q == reqs[r]
  IN /\ q.pc = "cleanup"
     /\ tmp' = [tmp EXCEPT ![q.bundle] = NoFile]
     /\ reqs' = [reqs EXCEPT ![r] = Respond(q, 200, q.body)]
     /\ UNCHANGED <<keepCafFiles, jjs, proofCache, now, cafVars, pipeVars, simple>>

\* getCacheKey(bundleId, filePath, taskId)
GetCacheKey(q) == <<q.bundle, Str(q.filePath), Str(q.taskId)>>

\* CACHE_TTL_MS, one minute, in cleanup intervals
CACHE_TTL_MS == 2
\* the clock readings of one behaviour of SpecWeb
MaxTime == 3

IsCacheEntryValidAtTTL(entry, t) == (t - entry.timestamp) <= CACHE_TTL_MS

\* isCacheEntryValid(entry) at the clock reading t
IsCacheEntryValid(entry, t) == (t - entry.timestamp) < CACHE_TTL_MS

\* this.proofCache.get(cacheKey), where there is one
Entry(key) == CHOOSE e \in proofCache : e.key = key

\* getCachedProofs: a valid entry is a hit; an expired one is deleted
GetCachedProofs(key) ==
  IF \E e \in proofCache : e.key = key
  THEN IF IsCacheEntryValid(Entry(key), now)
       THEN [hit |-> TRUE, cache |-> proofCache]
       ELSE [hit |-> FALSE, cache |-> proofCache \ {Entry(key)}]
  ELSE [hit |-> FALSE, cache |-> proofCache]

\* setCachedProofs: this.proofCache.set(cacheKey, {proofs, timestamp: Date.now()})
SetCachedProofs(cache, key) ==
  {e \in cache : e.key # key} \cup {[key |-> key, timestamp |-> now]}

\* getProofInfoFromJackal, lines 552-560: a valid cache entry is the answer
\* (cached); else this.jjs?.getProofs(bundleId) is called, or without a jjs
\* the empty list is cached and sent
Proof(r) ==
  LET q == reqs[r]
      got == GetCachedProofs(GetCacheKey(q))
  IN /\ q.pc = "proof"
     /\ IF got.hit
        THEN /\ reqs' = [reqs EXCEPT ![r] = Respond([q EXCEPT !.cached = TRUE], 200, <<>>)]
             /\ proofCache' = got.cache
        ELSE IF jjs
        THEN /\ reqs' = [reqs EXCEPT ![r] =
                  [q EXCEPT !.issued = @ \cup {"proofs"}, !.pc = "proofs"]]
             /\ proofCache' = got.cache
        ELSE /\ reqs' = [reqs EXCEPT ![r] = Respond(q, 200, <<>>)]
             /\ proofCache' = SetCachedProofs(got.cache, GetCacheKey(q))
     /\ UNCHANGED <<tmp, keepCafFiles, jjs, now, cafVars, pipeVars, simple>>

\* lines 560-570: getProofs resolves and its result is cached and sent, or it
\* throws
ProofsReturn(r) ==
  LET q == reqs[r]
  IN /\ q.pc = "proofs"
     /\ \E how \in {"ok", "throw"} :
          IF how = "ok"
          THEN /\ reqs' = [reqs EXCEPT ![r] = Respond(q, 200, <<>>)]
               /\ proofCache' = SetCachedProofs(proofCache, GetCacheKey(q))
          ELSE /\ reqs' = [reqs EXCEPT ![r] = Respond(q, 500, <<>>)]
               /\ proofCache' = proofCache
     /\ UNCHANGED <<tmp, keepCafFiles, jjs, now, cafVars, pipeVars, simple>>

\* startCacheCleanup's interval callback: every entry that is not valid is
\* deleted.  It runs once per interval, at any point of it.
StartCacheCleanup ==
  /\ proofCache' = {e \in proofCache : IsCacheEntryValid(e, now)}
  /\ UNCHANGED <<reqs, tmp, keepCafFiles, jjs, now, cafVars, pipeVars, simple>>

\* the clock moves on.  Date.now() is read only to stamp and to age cache
\* entries, so the model lets it stand while the cache is empty.
Tick ==
  /\ now < MaxTime
  /\ proofCache # {}
  /\ now' = now + 1
  /\ UNCHANGED <<reqs, tmp, keepCafFiles, jjs, proofCache, cafVars, pipeVars, simple>>

\* the constructor's localJjs.init().then(jjs => { this.jjs = jjs })
JjsInit ==
  /\ ~jjs
  /\ jjs' = TRUE
  /\ UNCHANGED <<reqs, tmp, keepCafFiles, proofCache, now, cafVars, pipeVars, simple>>

CafIdle ==
  /\ writer = NewCAF(MaxChunkSize)
  /\ goSerializer = NewCAFSerializer(MaxChunkSize)
  /\ goRet = ""
  /\ calls = 0
  /\ lastCall = [op |-> "none", path |-> "", len |-> 0, declared |-> 0,
                 ending |-> "", ret |-> ""]
  /\ added = <<>>
  /\ exact = TRUE
  /\ streamed = TRUE
  /\ rIndex = NoIndex
  /\ rLast = NoExtract
  /\ rArchive = <<>>

\* ------------------------------------------------- SimpleCAFProcessor
\* new SimpleCAFProcessor(jjs) on a channel with prefetch(1), and the
\* broker's view of that channel.  cafTimeout is "none" (null), "armed" or
\* "fired" (a Timeout whose callback has run); currentChannel is whether a
\* channel handle is stored; pc is where the processMessage of the consumer
\* callback waits; finalizing holds the callers ("pm", "timer") whose
\* finalizeAndUploadCAF is running; uploaded counts the containers
\* uploadCAFToJackal stored.  unacked is the message the broker awaits an
\* answer for (0: none), settled the number of acks and nacks sent for the
\* last delivery and answer the last of them.
SimpleIdle ==
  simple = [currentCAF |-> NoCAF, isUploading |-> FALSE, cafTimeout |-> "none",
            currentChannel |-> FALSE, processingMessages |-> <<>>,
            pc |-> "idle", msg |-> 0, declared |-> 0,
            finalizing |-> {}, uploaded |-> 0,
            unacked |-> 0, settled |-> 0, answer |-> "", delivered |-> 0]

\* channel.ack(msg) or channel.nack(msg, false, true), each the last
\* statement processMessage runs
Settle(s, how) ==
  [s EXCEPT !.pc = "idle", !.unacked = 0, !.settled = @ + 1, !.answer = how]

\* finalizeAndUploadCAF(channel) up to its first await
FinalizeAndUploadCAF(s, caller) ==
  IF s.currentCAF = NoCAF
  THEN s
  ELSE [s EXCEPT !.cafTimeout = "none", !.isUploading = TRUE,
                 !.currentCAF = NoCAF, !.currentChannel = FALSE,
                 !.finalizing = @ \cup {caller}]

\* the consumer callback, processMessage lines 82-108: with prefetch 1 the
\* broker delivers when no delivery is unanswered
SDeliver(m) ==
  /\ simple.unacked = 0
  /\ simple.pc = "idle"
  /\ simple.delivered < MaxDeliveries + 1
  /\ LET s == [simple EXCEPT !.currentChannel = TRUE, !.unacked = m,
                             !.settled = 0, !.answer = "", !.msg = m,
                             !.delivered = @ + 1]
     IN simple' = IF s.isUploading \/ Body(m).parse = "throws"
                  THEN Settle(s, "nack")
                  ELSE [s EXCEPT !.processingMessages = Append(@, m),
                                 !.pc = "download1"]
  /\ UNCHANGED <<cafVars, pipeVars, webVars>>

\* lines 108-133 and 151-154: the download resolves or throws; the writer is
\* created and the timer started if there is none; addFileFromStream is
\* called and returns false at once when the member does not fit
SDownload1 ==
  /\ simple.pc = "download1"
  /\ \E dl \in {"ok", "nolength", "throw"} :
       LET d == ContentLength(dl, Body(simple.msg).file_path)
           s == IF simple.currentCAF = NoCAF
                THEN [simple EXCEPT !.currentCAF = NewCAF(MaxChunkSize),
                                    !.cafTimeout = "armed"]
                ELSE simple
       IN simple' =
            IF dl = "throw"
            THEN Settle(simple, "nack")
            ELSE IF ExceedsChunkSize(s.currentCAF, d)
            THEN [FinalizeAndUploadCAF(s, "pm") EXCEPT !.pc = "rollover"]
            ELSE IF Destroyed(s.currentCAF)
            THEN Settle(s, "nack")
            ELSE [s EXCEPT !.pc = "add1", !.declared = d]
  /\ UNCHANGED <<cafVars, pipeVars, webVars>>

\* lines 133-150: the copy ends; line 138 reads this.currentCAF, which is
\* null when the timer took the writer during the copy
SAdd1 ==
  /\ simple.pc = "add1"
  /\ \E ending \in {"end", "error", "werror"} :
       LET r == AddFileFromStream(simple.currentCAF,
                  MemberPath(Body(simple.msg).task_id, Body(simple.msg).file_path),
                  ObjectBytes(Body(simple.msg).file_path), ending,
                  simple.declared)
           s == [simple EXCEPT !.currentCAF = r.w, !.cafTimeout = "armed"]
       IN simple' =
            IF simple.currentCAF = NoCAF
            THEN Settle(simple, "nack")
            ELSE IF r.ret # "true"
            THEN Settle([simple EXCEPT !.currentCAF = r.w], "nack")
            ELSE IF s.currentCAF.currentPosition >= s.currentCAF.maxChunkSize
            THEN [FinalizeAndUploadCAF(s, "pm") EXCEPT !.pc = "full"]
            ELSE Settle(s, "ack")
  /\ UNCHANGED <<cafVars, pipeVars, webVars>>

\* the finalizeAndUploadCAF that processMessage awaits has returned: line
\* 146 is the end of its branch, line 154 goes on with lines 157-158
SResume ==
  /\ simple.pc \in {"full", "rollover"}
  /\ "pm" \notin simple.finalizing
  /\ simple' = IF simple.pc = "full"
               THEN [simple EXCEPT !.pc = "idle"]
               ELSE [simple EXCEPT !.currentCAF = NewCAF(MaxChunkSize),
                                   !.pc = "download2"]
  /\ UNCHANGED <<cafVars, pipeVars, webVars>>

\* lines 158-168: the second download; what addFileFromStream returns is
\* not looked at
SDownload2 ==
  /\ simple.pc = "download2"
  /\ \E dl \in {"ok", "nolength", "throw"} :
       LET d == ContentLength(dl, Body(simple.msg).file_path)
       IN simple' =
            IF dl = "throw" \/ simple.currentCAF = NoCAF
            THEN Settle(simple, "nack")
            ELSE IF ExceedsChunkSize(simple.currentCAF, d)
            THEN Settle([simple EXCEPT !.cafTimeout = "armed"], "ack")
            ELSE [simple EXCEPT !.pc = "add2", !.declared = d]
  /\ UNCHANGED <<cafVars, pipeVars, webVars>>

\* lines 161-168: the second copy ends
SAdd2 ==
  /\ simple.pc = "add2"
  /\ \E ending \in {"end", "error", "werror"} :
       LET r == AddFileFromStream(simple.currentCAF,
                  MemberPath(Body(simple.msg).task_id, Body(simple.msg).file_path),
                  ObjectBytes(Body(simple.msg).file_path), ending,
                  simple.declared)
           s == [simple EXCEPT !.currentCAF = r.w]
       IN simple' = IF r.ret = "error"
                    THEN Settle(s, "nack")
                    ELSE Settle([s EXCEPT !.cafTimeout = "armed"], "ack")
  /\ UNCHANGED <<cafVars, pipeVars, webVars>>

\* the callback startCAFTimeout sets, lines 48-56; the model runs one
\* timer-called finalizeAndUploadCAF at a time
STimerFire ==
  /\ simple.cafTimeout = "armed"
  /\ "timer" \notin simple.finalizing
  /\ LET s == [simple EXCEPT !.cafTimeout = "fired"]
     IN simple' = IF s.currentCAF # NoCAF /\ s.currentChannel
                  THEN FinalizeAndUploadCAF(s, "timer")
                  ELSE s
  /\ UNCHANGED <<cafVars, pipeVars, webVars>>

\* finalizeAndUploadCAF lines 196-231 for one caller: finalize, the catalog
\* rows, the upload and the unlink, or the catch after finalize or the
\* upload threw; the finally clears isUploading
SFinalized(caller) ==
  /\ caller \in simple.finalizing
  /\ \E how \in {"uploaded", "finalize threw", "upload threw"} :
       simple' = [simple EXCEPT
                    !.finalizing = @ \ {caller},
                    !.processingMessages = IF how = "finalize threw" THEN @ ELSE <<>>,
                    !.uploaded = IF how = "uploaded" THEN @ + 1 ELSE @,
                    !.isUploading = FALSE]
  /\ UNCHANGED <<cafVars, pipeVars, webVars>>

Init == CafIdle /\ PipeIdle /\ WebIdle /\ SimpleIdle

Next ==
  \/ \E m \in Msgs : Deliver(m)
  \/ \E g \in Conns : PmDownload1(g)
  \/ \E g \in Conns : PmAdd1(g)
  \/ \E g \in Conns : PmDownload2(g)
  \/ \E g \in Conns : PmAdd2(g)
  \/ \E g \in Conns : PmResume(g)
  \/ \E g \in Conns : TimerFire(g)
  \/ \E g \in Conns, s \in Slots : HFinalize(g, s)
  \/ \E g \in Conns, s \in Slots : HUpload(g, s)
  \/ \E g \in Conns, s \in Slots : HSave(g, s)
  \/ \E g \in Conns, s \in Slots : HCleanup(g, s)
  \/ Reconnect

Spec == Init /\ [][Next]_vars

\* one connection that stays open, the messages with a well-formed body,
\* and one delivery more: a message that was nacked can be delivered again
\* while the processor still holds its first delivery
NextRedelivery ==
  \/ \E m \in {1, 2, 3} : DeliverUpTo(m, MaxDeliveries + 1)
  \/ \E g \in Conns : PmDownload1(g)
  \/ \E g \in Conns : PmAdd1(g)
  \/ \E g \in Conns : PmDownload2(g)
  \/ \E g \in Conns : PmAdd2(g)
  \/ \E g \in Conns : PmResume(g)
  \/ \E g \in Conns : TimerFire(g)
  \/ \E g \in Conns, s \in Slots : HFinalize(g, s)
  \/ \E g \in Conns, s \in Slots : HUpload(g, s)
  \/ \E g \in Conns, s \in Slots : HSave(g, s)
  \/ \E g \in Conns, s \in Slots : HCleanup(g, s)

SpecRedelivery == Init /\ [][NextRedelivery]_vars

\* the event loop runs the callback of a timer that has expired and the
\* continuation of every await whose promise settles, and downloads,
\* copies (which have a deadline), uploads, inserts and unlinks settle;
\* the broker and the network are free to deliver and to disconnect or not
Fairness ==
  \A g \in Conns :
    /\ WF_vars(PmDownload1(g)) /\ WF_vars(PmAdd1(g))
    /\ WF_vars(PmDownload2(g)) /\ WF_vars(PmAdd2(g))
    /\ WF_vars(PmResume(g)) /\ WF_vars(TimerFire(g))
    /\ \A s \in Slots :
         /\ WF_vars(HFinalize(g, s)) /\ WF_vars(HUpload(g, s))
         /\ WF_vars(HSave(g, s)) /\ WF_vars(HCleanup(g, s))

SpecLive == Spec /\ Fairness

\* ------------------------------------- SpecSimple: the SimpleCAFProcessor
NextSimple ==
  \/ \E m \in {1, 2, 3, 5} : SDeliver(m)
  \/ SDownload1
  \/ SAdd1
  \/ SResume
  \/ SDownload2
  \/ SAdd2
  \/ STimerFire
  \/ \E caller \in {"pm", "timer"} : SFinalized(caller)

\* the event loop runs the callback of an expired timer and the continuation
\* of every await whose promise settles; the broker is free to deliver or not
SpecSimple ==
  /\ Init
  /\ [][NextSimple]_vars
  /\ WF_vars(SDownload1) /\ WF_vars(SAdd1) /\ WF_vars(SResume)
  /\ WF_vars(SDownload2) /\ WF_vars(SAdd2) /\ WF_vars(STimerFire)
  /\ \A caller \in {"pm", "timer"} : WF_vars(SFinalized(caller))

\* ------------------------------------------------------- SpecCAF: one writer
NoCall == [op |-> "none", path |-> "", len |-> 0, declared |-> 0,
           ending |-> "", ret |-> ""]

InitCAF ==
  /\ writer = NewCAF(MaxChunkSize)
  /\ goSerializer = NewCAFSerializer(MaxChunkSize)
  /\ goRet = ""
  /\ calls = 0
  /\ lastCall = NoCall
  /\ added = <<>>
  /\ exact = TRUE
  /\ streamed = TRUE
  /\ rIndex = NoIndex
  /\ rLast = NoExtract
  /\ rArchive = <<>>
  /\ PipeIdle
  /\ WebIdle
  /\ SimpleIdle

Logged(op, p, len, declared, ending, r, g) ==
  /\ writer' = r.w
  /\ goSerializer' = g.w
  /\ goRet' = g.ret
  /\ calls' = calls + 1
  /\ lastCall' = [op |-> op, path |-> p, len |-> len, declared |-> declared,
                  ending |-> ending, ret |-> r.ret]
  /\ added' = IF r.ret = "true" THEN Append(added, [path |-> p, len |-> len])
               ELSE added
  /\ exact' = (exact /\ IF op = "finalize" THEN r.ret = "path"
                         ELSE r.ret = "true" /\ len = declared)
  /\ streamed' = (streamed /\ IF op = "finalize" THEN r.ret = "path"
                               ELSE op = "addFileFromStream"
                                    /\ r.ret \in {"true", "false"})
  /\ UNCHANGED <<rIndex, rLast, rArchive, pipeVars, webVars, simple>>

CallAddFile ==
  /\ calls < MaxCalls
  /\ \E p \in Paths, n \in 0..MaxLen, wr \in {"ok", "error"} :
       \E written \in (IF wr = "ok" THEN {n} ELSE 0..n) :
         Logged("addFile", p, n, n, wr,
                AddFile(writer, p, FileBytes(p, n), wr, written),
                GoAddFile(goSerializer, p, FileBytes(p, n), wr, written))

CallAddFileFromStream ==
  /\ calls < MaxCalls
  /\ \E p \in Paths, n \in 0..MaxLen, ending \in {"end", "error", "werror"} :
       \E declared \in {d \in {0, n - 1, n, n + 1, MaxChunkSize + 1} : d >= 0} :
         Logged("addFileFromStream", p, n, declared, ending,
                AddFileFromStream(writer, p, FileBytes(p, n), ending, declared),
                AddFileFromReader(goSerializer, p, FileBytes(p, n), ending,
                                  declared))

CallFinalize ==
  /\ calls < MaxCalls
  /\ \E wr \in {"ok", "error"} :
       Logged("finalize", "", 0, 0, wr, Finalize(writer, wr),
              GoFinalize(goSerializer, wr))

\* the container is complete once a finalize has returned its path
Finalized == writer.writeStream = "finished"

\* new CAFDeserializer(archivePath) on the finished container, as written
\* or as a writer of another format version would have written it, and
\* loadIndex()
CallLoadIndex ==
  /\ Finalized
  /\ ~rIndex.loaded
  /\ \E v \in Versions :
       /\ rArchive' = WithVersion(writer.disk, v)
       /\ rIndex' = LoadIndex(WithVersion(writer.disk, v))
  /\ UNCHANGED <<writer, goSerializer, goRet, calls, lastCall, added, exact,
                 streamed, rLast, pipeVars, webVars, simple>>

\* a reader method has been called
Read(op, p, r) ==
  /\ Finalized
  /\ rLast' = [op |-> op, path |-> p, loaded |-> rIndex.loaded, r |-> r]
  /\ UNCHANGED <<writer, goSerializer, goRet, calls, lastCall, added, exact,
                 streamed, rIndex,
                 rArchive, pipeVars, webVars, simple>>

CallExtractFile ==
  \E p \in Paths : Read("extractFile", p, ExtractFile(rIndex, rArchive, p))

CallGetFileList == Read("getFileList", "", FileList(rIndex))

CallHasFile == \E p \in Paths : Read("hasFile", p, HasFile(rIndex, p))

CallGetFileMetadata ==
  \E p \in Paths : Read("getFileMetadata", p, GetFileMetadata(rIndex, p))

CallGetFormatVersion == Read("getFormatVersion", "", GetFormatVersion(rIndex))

CallExtractAll == Read("extractAll", "", ExtractAll(rIndex, rArchive))

NextCAF ==
  \/ CallAddFile
  \/ CallAddFileFromStream
  \/ CallFinalize
  \/ CallLoadIndex
  \/ CallExtractFile
  \/ CallGetFileList
  \/ CallHasFile
  \/ CallGetFileMetadata
  \/ CallGetFormatVersion
  \/ CallExtractAll

SpecCAF == InitCAF /\ [][NextCAF]_vars

\* ------------------------------------------------------ the web server alone
\* the container of the bundle the catalog's rows name: the two members as
\* the pipeline packs them, a container finalized without a member, the
\* packed container short of its last byte, and an empty object
Packed ==
  Finalize(AddFileFromStream(
             AddFileFromStream(NewCAF(MaxChunkSize), MemberPath("T", "x"),
                               ObjectBytes("x"), "end", ObjectLength("x")).w,
             MemberPath("T", "y"), ObjectBytes("y"), "end", ObjectLength("y")).w,
           "ok").w.disk
NoMembers == Finalize(NewCAF(MaxChunkSize), "ok").w.disk
Truncated == Prefix(Packed, Len(Packed) - 1)
Containers == {Packed, NoMembers, Truncated, <<>>}

\* the rows the pipeline has written for the bundle; the temp directory is
\* empty, or holds the bundle's container from an earlier download
WebRows ==
  SaveJackalFile(SaveJackalFile(<<>>, "x", "T", 1), "y", "T", 1)

InitWeb ==
  /\ CafIdle
  /\ SimpleIdle
  /\ broker = [m \in Msgs |-> IF m \in {1, 2} THEN -1 ELSE 0]
  /\ deliveries = 0
  /\ conn = 1
  /\ chanErr = FALSE
  /\ procs = [g \in Conns |-> NewProc]
  /\ catalog = WebRows
  /\ blob \in {<<c>> : c \in Containers}
  /\ reqs = [r \in Reqs |-> NoRequest]
  /\ tmp \in {<<NoFile>>} \cup {<<File(c)>> : c \in {blob[1]} \ {<<>>}}
  /\ keepCafFiles \in BOOLEAN
  /\ jjs \in BOOLEAN
  /\ proofCache = {}
  /\ now = 0

NextWeb ==
  \/ \E r \in Reqs : Receive(r)
  \/ \E r \in Reqs : Lookup(r)
  \/ \E r \in Reqs : Stat1(r)
  \/ \E r \in Reqs : Unlink1(r)
  \/ \E r \in Reqs : StartDownload(r)
  \/ \E r \in Reqs : DownloadSettles(r)
  \/ \E r \in Reqs : Timeout(r)
  \/ \E r \in Reqs : Stat2(r)
  \/ \E r \in Reqs : Validated(r)
  \/ \E r \in Reqs : Catch(r)
  \/ \E r \in Reqs : Load(r)
  \/ \E r \in Reqs : Extract(r)
  \/ \E r \in Reqs : Cleanup(r)
  \/ \E r \in Reqs : Proof(r)
  \/ \E r \in Reqs : ProofsReturn(r)
  \/ StartCacheCleanup
  \/ Tick
  \/ JjsInit

SpecWeb == InitWeb /\ [][NextWeb]_vars

\* ------------------------------------------------------ claims, SpecCAF
IsAppend(c) == c.op \in {"addFile", "addFileFromStream"}
Range(e) == e.start_byte..(e.end_byte - 1)
AddedPaths == {added[i].path : i \in 1..Len(added)}
AddedLen(p) == added[CHOOSE i \in 1..Len(added) : added[i].path = p].len
UniquePaths == \A i, j \in 1..Len(added) : i # j => added[i].path # added[j].path
\* the payload bytes physically in the writer's file
PayloadWritten(w) == Cardinality({i \in 1..Len(w.disk) : w.disk[i].k = "data"})

\* C4: after any sequence of append calls the ranges of the index are
\* pairwise disjoint and their union is [0, currentPosition).
C4_RangesTilePayload ==
  LET own == writer.fileIndex.own
  IN /\ \A i, j \in 1..Len(own) : i # j => Range(own[i]) \cap Range(own[j]) = {}
     /\ UNION {Range(own[i]) : i \in 1..Len(own)} = 0..(writer.currentPosition - 1)

\* C5: members with unique paths, appended with exactly their bytes and
\* finalized: the loaded index lists each path exactly once and nothing else,
\* and extractFile of an appended path returns the bytes appended under it.
C5_RoundTrip ==
  (exact /\ UniquePaths /\ Finalized /\ rIndex.loaded /\ rArchive = writer.disk) =>
    /\ Len(GetFileList(rIndex)) = Len(added)
    /\ {GetFileList(rIndex)[i] : i \in 1..Len(GetFileList(rIndex))} = AddedPaths
    /\ (rLast.op = "extractFile" /\ rLast.loaded /\ rLast.path \in AddedPaths) =>
         (rLast.r.ok /\ rLast.r.data = FileBytes(rLast.path, AddedLen(rLast.path)))

\* C6: a stream append whose stream ends after a number of bytes other than
\* the declared length fails, records no index entry and does not advance
\* currentPosition.
C6_SizeMismatchRejected ==
  [][(/\ calls' = calls + 1
      /\ lastCall'.op = "addFileFromStream"
      /\ lastCall'.ending = "end"
      /\ lastCall'.len # lastCall'.declared
      /\ ~ExceedsChunkSize(writer, lastCall'.declared)
      /\ ~Destroyed(writer))
     => (/\ lastCall'.ret = "error"
         /\ writer'.fileIndex = writer.fileIndex
         /\ writer'.currentPosition = writer.currentPosition)]_vars

\* C7: an append for a member path that is already in the index is rejected
\* before any byte is written; the entry and currentPosition stay as they were.
C7_DuplicateMemberRejected ==
  [][(/\ calls' = calls + 1
      /\ IsAppend(lastCall')
      /\ lastCall'.path \in OwnKeys(writer.fileIndex)
      /\ ~ExceedsChunkSize(writer, lastCall'.declared)
      /\ ~Destroyed(writer))
     => (lastCall'.ret = "error" /\ writer' = writer)]_vars

\* C8: an append called when currentPosition + length > maxChunkSize returns
\* false and leaves the writer as it was: offset, index and file bytes.
C8_OverBudgetUntouched ==
  [][(/\ calls' = calls + 1
      /\ IsAppend(lastCall')
      /\ writer.currentPosition + lastCall'.declared > writer.maxChunkSize)
     => (lastCall'.ret = "false" /\ writer' = writer)]_vars

\* an over-budget stream append has been refused by a writer that holds bytes
C8_Witness ==
  /\ lastCall.op = "addFileFromStream"
  /\ lastCall.ret = "false"
  /\ writer.currentPosition > 0
  /\ writer.currentPosition + lastCall.declared > writer.maxChunkSize

\* C9: after stream appends none of which failed, the payload bytes in the
\* container file do not exceed maxChunkSize.
C9_PayloadWithinBudget ==
  streamed => PayloadWritten(writer) <= writer.maxChunkSize

\* --------------------------------------------------------- claims, Spec
\* the finalizeCurrentCAF in slot s of processor g takes a step
Steps(g, s) == procs'[g][s] # procs[g][s]
\* message m is acked in this step
AckedNow(m) == broker[m] # -1 /\ broker'[m] = -1
KeyOf(row) == <<row.task_id, row.file_path>>

\* C1: no message of a batch is acked before the batch's container has been
\* uploaded and the catalog insert has been issued for every message of the
\* batch.
C1_AckAfterUploadAndInserts ==
  [][\A g \in Conns, s \in Slots :
       LET h == procs[g][s]
       IN (h.pc = "save" /\ Steps(g, s) /\ AckedNow(h.msgs[h.i].id))
            => (h.name \in 1..Len(blob) /\ h.i = Len(h.msgs))]_vars

\* C2: when the upload or a catalog insert of a batch fails, no message of
\* the batch is acked and, the channel being open, every message of the
\* batch is nacked with requeue.
C2_FailedHandoffNacksAll ==
  [][\A g \in Conns, s \in Slots :
       LET h == procs[g][s]
       IN (\/ h.pc = "upload" /\ Steps(g, s) /\ blob' = blob
           \/ h.pc = "save" /\ Steps(g, s) /\ catalog' = catalog)
            => /\ \A m \in MsgIds(h.msgs) : ~AckedNow(m)
               /\ ChanOpen(g) => \A m \in MsgIds(h.msgs) : broker'[m] = 0]_vars

\* C3: for every catalog row the container uploaded under its bundle_id has
\* the member task_id/file_path, and extracting it gives the bytes of the
\* source object.
C3_CatalogRowExtractable ==
  \A k \in 1..Len(catalog) :
    LET row == catalog[k]
    IN /\ row.bundle_id \in 1..Len(blob)
       /\ LET file == blob[row.bundle_id]
              r == ExtractFile(LoadIndex(file), file,
                               MemberPath(row.task_id, row.file_path))
          IN r.ok /\ r.data = ObjectBytes(row.file_path)

\* C10: the catalog holds at most one record per (task_id, file_path).
C10_OneRecordPerKey ==
  \A j, k \in 1..Len(catalog) : j # k => KeyOf(catalog[j]) # KeyOf(catalog[k])

\* the finalizeCurrentCAF in slot s of processor g ends in this step without
\* having reached cleanupCAF: finalize or the upload failed, or an ack threw
FailsNow(g, s) ==
  /\ procs[g][s].pc \in {"finalize", "upload", "save"}
  /\ procs'[g][s].pc \in {"idle", "returned", "threw"}

\* C11: when a handoff fails and its messages are nacked with requeue, the
\* batch's local container file has been deleted when the handoff returns.
C11_FailedHandoffDeletesFile ==
  [][\A g \in Conns, s \in Slots :
       (FailsNow(g, s) /\ ChanOpen(g)) => procs'[g].files = procs[g].files - 1]_vars

\* the body of message m is not a JSON object with string task_id and
\* file_path
InvalidBody(m) == Body(m).parse = "throws" \/ ~Body(m).typed

\* C12: a message whose body fails parsing or validation is never acked,
\* never enters a pending list and produces no catalog row.
C12_InvalidBodyRejected ==
  \A m \in Msgs :
    InvalidBody(m) =>
      /\ broker[m] # -1
      /\ \A g \in Conns : m \notin MsgIds(procs[g].pendingMessages)
      /\ \A k \in 1..Len(catalog) :
           KeyOf(catalog[k]) # <<Body(m).task_id, Body(m).file_path>>

\* C13: once finalize has completed on a writer, every further addFile,
\* addFileFromStream or finalize call fails with an error and leaves the
\* container file as it was.
C13_UseAfterFinalize ==
  [][(calls' = calls + 1 /\ Finalized)
       => (lastCall'.ret = "error" /\ writer'.disk = writer.disk)]_vars

\* C14: an append of a zero-length member fails with an error and records
\* no index entry.
C14_EmptyMemberRejected ==
  [][(/\ calls' = calls + 1
      /\ IsAppend(lastCall')
      /\ lastCall'.len = 0
      /\ lastCall'.declared = 0)
     => (lastCall'.ret = "error" /\ writer'.fileIndex = writer.fileIndex)]_vars

\* C15: loadIndex fails, and caches no index, when the container's index
\* has a format_version other than "1.0".
C15_UnsupportedVersionRejected ==
  rIndex.loaded => rIndex.format_version = "1.0"

\* C16: a reader method called before a loadIndex has succeeded throws the
\* index-not-loaded error and gives no data.
C16_IndexNotLoaded ==
  (rLast.op # "none" /\ ~rLast.loaded) => rLast.r = Throws("Index not loaded")

\* extractAll has been called on a reader of a finished container before any
\* loadIndex, and has thrown
C16_Witness ==
  /\ rLast.op = "extractAll"
  /\ ~rLast.loaded
  /\ rLast.r.err = "Index not loaded"
  /\ Len(rArchive) = 0
  /\ Len(writer.disk) > 5

\* a request slot that has taken a request
Taken(q) == q.pc # "idle"

\* the taskId has a character outside A-Z, a-z, 0-9, _ and -, or none at all
BadTaskId(q) ==
  \/ Len(q.taskId) = 0
  \/ \E i \in 1..Len(q.taskId) : q.taskId[i] \in {" ", ".", "~", "/"}

\* the filePath has two dots in a row or a tilde, or begins with a slash
BadFilePath(q) ==
  \/ \E i \in 1..(Len(q.filePath) - 1) : q.filePath[i] = "." /\ q.filePath[i + 1] = "."
  \/ \E i \in 1..Len(q.filePath) : q.filePath[i] = "~"
  \/ (Len(q.filePath) > 0 /\ q.filePath[1] = "/")

\* C17: on the three routes, a request whose taskId does not match
\* ^[A-Za-z0-9_-]+$ or whose filePath contains '..' or '~' or starts with '/'
\* is answered 400, and no catalog lookup, download or proof fetch has been
\* issued for it.
C17_BadParamsRejected ==
  \A r \in Reqs :
    (Taken(reqs[r]) /\ (BadTaskId(reqs[r]) \/ BadFilePath(reqs[r]))) =>
      /\ reqs[r].pc = "done"
      /\ reqs[r].status = 400
      /\ reqs[r].issued = {}

\* a /file-proof request for a valid taskId and the filePath "/x" has been
\* answered 400 while the other slot's request went on to its lookup
C17_Witness ==
  /\ reqs[1].route = "/file-proof"
  /\ reqs[1].taskId = <<"T">>
  /\ reqs[1].filePath = <<"/", "x">>
  /\ reqs[1].status = 400
  /\ "lookup" \in reqs[2].issued

\* the local file of request r's bundle
Local(r) == tmp[reqs[r].bundle]
LocalAfter(r) == tmp'[reqs[r].bundle]

\* C18: when a /file request served from a container that was already in
\* the local cache fails in the index load or the member extraction, the
\* local cache file is deleted.
C18_CorruptCacheInvalidated ==
  [][\A r \in Reqs :
       (/\ reqs[r].cached
        /\ reqs[r].pc \in {"load", "extract"}
        /\ reqs'[r].pc = "done"
        /\ reqs'[r].status = 500) => ~LocalAfter(r).exists]_vars

\* C19: a request whose download lost the race against the deadline is
\* answered 500, and once it is answered its download leaves no local file.
C19_TimedOutDownloadLeavesNoFile ==
  [][\A r \in Reqs :
       (reqs[r].timedOut /\ reqs[r].pc = "done") =>
         /\ reqs[r].status = 500
         /\ (reqs'[r].dl # reqs[r].dl) => (tmp' = tmp \/ ~LocalAfter(r).exists)]_vars

\* the container is empty, its index cannot be loaded, or its file list is
\* empty
FailsValidation(f) ==
  \/ ~f.exists
  \/ Len(f.data) = 0
  \/ ~LoadIndex(f.data).loaded
  \/ Len(GetFileList(LoadIndex(f.data))) = 0

\* C20: a freshly downloaded container that is empty, whose index cannot be
\* loaded or whose file list is empty fails the download, and the failed
\* download deletes the local file and is answered 500.
C20_InvalidDownloadDeleted ==
  [][\A r \in Reqs :
       /\ (/\ reqs[r].pc = "stat2"
           /\ reqs'[r].pc # "stat2"
           /\ (~Local(r).exists \/ Len(Local(r).data) = 0)) => reqs'[r].pc = "catch"
       /\ (/\ reqs[r].pc = "validate"
           /\ reqs'[r].pc # "validate"
           /\ FailsValidation(Local(r))) => reqs'[r].pc = "catch"
       /\ (reqs[r].pc = "catch" /\ reqs'[r].pc # "catch") =>
            (reqs'[r].status = 500 /\ ~LocalAfter(r).exists)]_vars

\* a /file request whose row was found, which is to serve a member
Serves(q) == q.route = "/file" /\ q.bundle # 0

\* C21: with keepCafFiles set and the valid container in the local cache,
\* every /file request for a member, one after or beside the other, is
\* answered with the member's bytes, no download is issued, and the local
\* file stays as it was.
C21_CachedServeRepeatable ==
  (keepCafFiles /\ tmp = <<File(Packed)>>) =>
    [](/\ tmp = <<File(Packed)>>
       /\ \A r \in Reqs :
            /\ "download" \notin reqs[r].issued
            /\ (Serves(reqs[r]) /\ reqs[r].pc = "done") =>
                 /\ reqs[r].status = 200
                 /\ reqs[r].body = ObjectBytes(Str(reqs[r].filePath)))

\* the same member has been served twice from the cached container
C21_Witness ==
  /\ keepCafFiles
  /\ tmp = <<File(Packed)>>
  /\ \A r \in Reqs :
       /\ Serves(reqs[r])
       /\ reqs[r].cached
       /\ reqs[r].filePath = <<"y">>
       /\ reqs[r].status = 200
       /\ reqs[r].body = ObjectBytes("y")
       /\ reqs[r].issued = {"lookup"}

\* request r is answered in this step
Answered(r) == reqs[r].pc # "done" /\ reqs'[r].pc = "done"

Age(r) == now - Entry(GetCacheKey(reqs[r])).timestamp
HasEntry(cache, r) == \E e \in cache : e.key = GetCacheKey(reqs[r])

\* C23: a /file-proof request is answered from the proof cache only when
\* the entry of its key is less than two intervals (60 s) old, and the hit
\* leaves the entry as it was; a lookup that finds an older entry deletes
\* it, and the cleanup interval leaves no such entry.
C23_ProofCacheExpiry ==
  [][/\ \A r \in Reqs :
          (reqs[r].pc = "proof" /\ reqs'[r].pc # "proof") =>
            /\ reqs'[r].cached =>
                 /\ HasEntry(proofCache, r)
                 /\ Age(r) < 2
                 /\ proofCache' = proofCache
            /\ (HasEntry(proofCache, r) /\ Age(r) >= 2) =>
                 /\ ~reqs'[r].cached
                 /\ Entry(GetCacheKey(reqs[r])) \notin proofCache'
     /\ (now' = now /\ reqs' = reqs /\ proofCache' # proofCache) =>
          \A e \in proofCache' : now - e.timestamp < 2]_vars

\* the second request was answered from the entry the first had inserted
\* one interval before, and the entry has since expired and been dropped
C23_Witness ==
  /\ reqs[1].route = "/file-proof"
  /\ reqs[1].status = 200
  /\ "proofs" \in reqs[1].issued
  /\ reqs[2].route = "/file-proof"
  /\ reqs[2].cached
  /\ reqs[2].status = 200
  /\ reqs[2].issued = {"lookup"}
  /\ GetCacheKey(reqs[2]) = GetCacheKey(reqs[1])
  /\ proofCache = {}
  /\ now = 2

\* the members an index lists, with their byte ranges
IndexOf(file) ==
  {LoadIndex(file).files.own[i] : i \in 1..Len(LoadIndex(file).files.own)}

\* C24: given the same calls, the Go serializer and the TypeScript
\* serializer return the same decision every time, and the containers they
\* finalize list the same members with the same byte ranges.
C24_GoAndTypeScriptAgree ==
  (lastCall.op # "none") =>
    /\ goRet = lastCall.ret
    /\ (Finalized /\ goSerializer.writer = "nil") =>
         IndexOf(goSerializer.disk) = IndexOf(writer.disk)

\* processor g has a stream append that is still copying
Copying(g) == procs[g].pm.pc \in {"add1", "add2"}

\* C25: the finalizeCurrentCAF the inactivity timer calls never runs while
\* a processMessage of the same processor is in progress, and so no writer
\* is being finalized while a stream append into it is still copying.
C25_TimerFinalizeNotDuringProcessMessage ==
  \A g \in Conns :
    /\ procs[g].pm.pc # "idle" => procs[g].ht.pc = "idle"
    /\ Copying(g) => procs[g].pm.caf \notin {procs[g].ht.caf, procs[g].hp.caf}

\* the processors of the worker whose processMessage has not returned
Running == {g \in Conns : procs[g].pm.pc # "idle"}

\* C26: in the worker at most one processMessage is in progress at any
\* instant, and so at most one stream append is copying, whatever the
\* prefetch and the order of deliveries.
C26_OneProcessMessageAtATime ==
  /\ Cardinality(Running) <= 1
  /\ Cardinality({g \in Conns : Copying(g)}) <= 1

\* the stream append of processor g ends in this step without its message
\* being tracked: addFileFromStream rejected
AppendFailed(g) ==
  /\ Copying(g)
  /\ procs'[g].pm # procs[g].pm
  /\ procs[g].pm.msg \notin MsgSet(procs'[g].pendingMessages)
                              \cup MsgSet(procs'[g].hp.msgs)

\* C27: when a stream append fails, the processor is left without a writer
\* and with an empty pending list, and every message that was pending has
\* been nacked for requeue.
C27_FailedAppendDiscardsContainer ==
  [][\A g \in Conns :
       AppendFailed(g) =>
         /\ procs'[g].currentCAF = 0
         /\ procs'[g].pendingMessages = <<>>
         /\ ChanOpen(g) =>
              \A m \in MsgIds(procs[g].pendingMessages) : broker'[m] = 0]_vars

\* processor g is Idle: no writer, nothing pending
Idle(g) == procs[g].currentCAF = 0 /\ procs[g].pendingMessages = <<>>

\* C28: once a processor has pending messages, the inactivity timer (or the
\* count check, if deliveries go on) finalizes the batch: the processor
\* comes to be Idle, and each message of the batch leaves the pending list
\* and the broker stops waiting for an answer to its delivery.
C28_PendingBatchIsFinalized ==
  \A g \in Conns :
    /\ (procs[g].pendingMessages # <<>>) ~> Idle(g)
    /\ \A m \in Msgs : \A t \in 1..MaxDeliveries :
         ([id |-> m, tag |-> t] \in MsgSet(procs[g].pendingMessages))
           ~> /\ [id |-> m, tag |-> t] \notin MsgSet(procs[g].pendingMessages)
              /\ broker[m] # t

\* a finalizeCurrentCAF of processor g is finalizing, uploading or saving
\* catalog rows
HandingOff(g) == \E s \in Slots : procs[g][s].pc \in {"finalize", "upload", "save"}

\* C29: a message delivered while the connection's processor is handing a
\* batch off is nacked for requeue at once: the broker holds it as before,
\* it is not put in messageQueue and no processMessage starts on it.
C29_DeliveryDuringHandoffNacked ==
  [][(deliveries' # deliveries /\ HandingOff(conn)) =>
       /\ broker' = broker
       /\ procs'[conn].messageQueue = procs[conn].messageQueue
       /\ procs'[conn].pm = procs[conn].pm]_vars

\* C30: once its connection has closed, a processor takes no step that
\* uploads a container, inserts a catalog row or starts a stream append.
C30_ClosedConnectionProcessorStops ==
  [][\A g \in Conns :
       (g < conn /\ procs'[g] # procs[g]) =>
         /\ blob' = blob
         /\ catalog' = catalog
         /\ ~(~Copying(g) /\ procs'[g].pm.pc \in {"add1", "add2"})]_vars

\* the member path and the bytes of the message processor g is processing
PmPath(g) ==
  MemberPath(Body(procs[g].pm.msg.id).task_id, Body(procs[g].pm.msg.id).file_path)
PmBytes(g) == ObjectBytes(Body(procs[g].pm.msg.id).file_path)

\* C31: after an append returned false for lack of capacity, the batch
\* handed off does not hold the triggering message, and when that message
\* is then tracked as pending its bytes are the first member of the
\* processor's new writer.
C31_RolloverAppendsToNewWriter ==
  [][\A g \in Conns :
       /\ procs'[g].pm.pc = "fin_full" =>
            procs'[g].pm.msg \notin MsgSet(procs'[g].hp.msgs)
       /\ (/\ procs[g].pm.pc \in {"dl2", "add2"}
           /\ procs[g].pm.msg \in MsgSet(procs'[g].pendingMessages)) =>
            /\ procs'[g].currentCAF # 0
            /\ LET w == procs'[g].cafs[procs'[g].currentCAF]
               IN /\ w.fileIndex.own =
                       <<[path |-> PmPath(g), start_byte |-> 0,
                          end_byte |-> Len(PmBytes(g))]>>
                  /\ w.disk = PmBytes(g)]_vars

\* the step tracks the message processor g is processing
Tracked(g) ==
  /\ procs[g].pm.pc \in {"add1", "dl2", "add2"}
  /\ procs[g].pm.msg \in MsgSet(procs'[g].pendingMessages)
                           \cup MsgSet(procs'[g].hp.msgs)

\* C32: when tracking a message brings the pending list to the ceiling, the
\* whole list, that message included, is handed off in the same step; the
\* pending list never exceeds the ceiling and is below it whenever no
\* processMessage is running.
C32_CeilingFinalizesAtOnce ==
  [][\A g \in Conns :
       /\ (Tracked(g) /\ Len(procs[g].pendingMessages) + 1 >= Prefetch) =>
            /\ procs'[g].pendingMessages = <<>>
            /\ procs'[g].hp.msgs = Append(procs[g].pendingMessages, procs[g].pm.msg)
            /\ procs'[g].hp.pc = "finalize"
       /\ Len(procs'[g].pendingMessages) <= Prefetch
       /\ procs'[g].pm.pc = "idle" => Len(procs'[g].pendingMessages) < Prefetch]_vars

\* processMessage awaits the handoff of a batch of Prefetch messages whose
\* last is its own
C32_Witness ==
  \E g \in Conns :
    /\ procs[g].pm.pc = "fin_count"
    /\ Len(procs[g].hp.msgs) = Prefetch
    /\ procs[g].hp.msgs[Prefetch] = procs[g].pm.msg
    /\ procs[g].pendingMessages = <<>>

\* C33: no ack or nack is sent for a delivery that was already acked or
\* nacked on its channel; the broker answers such a call by closing the
\* channel with an error, so the channel never comes to that state.
C33_SettledAtMostOnce == ~chanErr

\* C34: between calls, an open writer's file holds exactly as many payload
\* bytes as its currentPosition says, so the next member starts at the
\* offset its start_byte will record.
C34_FileLengthIsPosition ==
  (writer.writeStream = "open") => Len(writer.disk) = writer.currentPosition

\* neither a processMessage nor a finalizeCurrentCAF of processor g runs
Quiet(g) ==
  procs[g].pm.pc = "idle" /\ procs[g].hp.pc = "idle" /\ procs[g].ht.pc = "idle"

\* C35: a quiet processor with pending messages has an open writer and an
\* armed inactivity timer, and a processor without a writer has no pending
\* messages.
C35_PendingHasWriterAndTimer ==
  \A g \in Conns :
    /\ (procs[g].pendingMessages # <<>> /\ Quiet(g)) =>
         /\ procs[g].currentCAF # 0
         /\ procs[g].cafs[procs[g].currentCAF].writeStream = "open"
         /\ procs[g].inactivityTimer = "armed"
    /\ procs[g].currentCAF = 0 => procs[g].pendingMessages = <<>>

\* nothing outside the server has failed request q: its download, if it
\* issued one, was not refused and did not pass the deadline
Sound(q) == q.dl # "rejected" /\ ~q.timedOut

\* request q found the container in the cache or asked the storage for it
Fetched(q) == q.cached \/ "download" \in q.issued

\* C36: with the valid container in the storage and no download failing,
\* every /file request for one of its members is answered 200 with the
\* member's bytes, whatever the other request does meanwhile.
C36_ConcurrentServesSucceed ==
  (blob[1] = Packed /\ \A r \in Reqs : Sound(reqs[r])) =>
    \A r \in Reqs :
      (Serves(reqs[r]) /\ Fetched(reqs[r]) /\ reqs[r].pc = "done") =>
        /\ reqs[r].status = 200
        /\ reqs[r].body = ObjectBytes(Str(reqs[r].filePath))

\* hasFile(p) and getFileList() agree on p, and extractFile(p) returns
\* exactly when hasFile(p) is true
Agree(p) ==
  /\ HasFile(rIndex, p).flag <=> Find(GetFileList(rIndex), p)
  /\ ExtractFile(rIndex, rArchive, p).ok <=> HasFile(rIndex, p).flag

\* C39: on a reader whose index is loaded, for every string p, hasFile(p)
\* is true exactly when p is in getFileList(), and extractFile(p) returns
\* bytes exactly when hasFile(p) is true.
C39_HasFileMatchesFileList == rIndex.loaded => \A p \in Paths : Agree(p)

\* C37: whenever the processMessage of a delivery has returned, that
\* delivery was acked or nacked exactly once, whichever branch it took.
C37_EveryBranchSettlesOnce ==
  (simple.pc = "idle" /\ simple.delivered > 0) => simple.settled = 1

\* the current writer is open and holds at least one member
OpenWithMember ==
  /\ simple.currentCAF # NoCAF
  /\ OwnKeys(simple.currentCAF.fileIndex) # {}

\* C38: an open writer that holds a member is taken for finalization and
\* upload in the end, also after the timer's callback has run without a
\* stored channel handle.
C38_TimeoutFinalizesOpenWriter ==
  /\ OpenWithMember ~> (simple.currentCAF = NoCAF)
  /\ (OpenWithMember /\ simple.cafTimeout = "fired" /\ ~simple.currentChannel)
       ~> (simple.currentCAF = NoCAF)

============================================================================
